---- MODULE Spec2Model ----
(***************************************************************************)
(* Model of the publishjs default command: the CLI action of src/cli.ts    *)
(* and the publish workflow of src/publisher.ts with the collaborators it  *)
(* calls (git.ts, remote.ts, auth.ts, interactive.ts, registry.ts).        *)
(* Every await of the workflow is one action; the outcome of an external   *)
(* command or of a prompt is chosen nondeterministically in that action.   *)
(* Every call to a collaborator is appended to the variable trace.         *)
(* SpecDirty is the same workflow started with uncommitted changes.        *)
(* SpecFlows models the remediation sub-flows called on their own:         *)
(* autoInitializeGit (auto_init.ts), autoCreateRemote (auto_remote.ts),    *)
(* autoCommitChanges (auto_commit.ts) and autoFixJsrConfig                 *)
(* (jsr_validator.ts), which publish itself never calls.                   *)
(* SpecProbes models the read-only probes: the check command of cli.ts     *)
(* and validateJsrConfig, over the manifests of the project directory.     *)
(***************************************************************************)
EXTENDS Integers, Sequences, FiniteSets, TLC

\* ------------------------------------------------------------------ bounds
MaxBranches == 2
MaxTags == 2
MaxFiles == 2     \* changed files in the working tree
MaxCalls == 2     \* calls of one remediation sub-flow in a row

BranchPool == <<"main", "dev", "feature", "hotfix">>
TagPool == <<"v1.0.0", "v1.0.1", "v1.1.0", "v2.0.0">>
BranchNames == {BranchPool[i] : i \in 1..MaxBranches}
TagNames == {TagPool[i] : i \in 1..MaxTags}

\* ------------------------------------------------------------------- state
VARIABLES
  entry,              \* "cli": the default command; "api": publish() called directly
  opts,               \* PublishOptions
  pc,                 \* position in the workflow
  isRepo,             \* the directory holds a .git
  remotes,            \* configured remotes, in `git remote -v` order
  tags,               \* tags of the repository
  trace,              \* calls made so far, in order
  remote,             \* publish: remote.name of the resolved RemoteInfo
  gitRef,             \* publish: gitRef
  branchList,         \* determineGitRef: branchesResult.value
  tagList,            \* determineGitRef: tagsResult.value
  newTag,             \* determineGitRef: name of promptCreateTag
  registries,         \* publish: registries (RegistryType of each PackageInfo)
  picked,             \* promptSelectRegistries: registries
  selectedRegistries, \* publish: selectedRegistries
  idx,                \* loop index of the running for-of loop
  result,             \* Result of publish: "" (running), "OK" or an error code
  exitCode,           \* Deno.exit code, -1 while the process runs
  tree,               \* working tree: the lines of `git status --porcelain`
  gitignore,          \* a .gitignore file exists
  gitUser,            \* which of user.name, user.email git config holds
  commits,            \* commits created so far
  cli,                \* hosting CLIs installed, of "gh" and "glab"
  hosted,             \* platforms on which a repository has been created
  writes,             \* configs written to deno.json so far, in order
  calls,              \* calls of the sub-flow so far, the running one included
  validation,         \* autoFixJsrConfig: validation
  config,             \* autoFixJsrConfig: config
  repoConfig,         \* autoCreateRemote: options
  commitMessage,      \* commit message chosen by the running sub-flow
  packageJson,        \* package.json of the project directory
  denoJson,           \* deno.json of the project directory
  jsrJson             \* jsr.json of the project directory

vars == <<entry, opts, pc, isRepo, remotes, tags, trace, remote, gitRef,
          branchList, tagList, newTag, registries, picked,
          selectedRegistries, idx, result, exitCode, tree, gitignore,
          gitUser, commits, cli, hosted, writes, calls, validation, config,
          repoConfig, commitMessage, packageJson, denoJson, jsrJson>>

\* ----------------------------------------------------------------- helpers
\* a call that returned nothing worth recording (ok) or failed or threw (~ok)
Ev(by, op, args, ok) ==
  [by |-> by, op |-> op, args |-> args, ok |-> ok, ret |-> ""]

\* a call that returned ret
EvR(by, op, args, ret) ==
  [by |-> by, op |-> op, args |-> args, ok |-> TRUE, ret |-> ret]

Ops(t) == {t[i].op : i \in DOMAIN t}

InSeq(x, s) == \E i \in DOMAIN s : s[i] = x

\* Array.prototype.filter(Boolean).length over branch, tag, createTag
MutuallyExclusiveCount(o) ==
  (IF o.branch # "" THEN 1 ELSE 0) + (IF o.tag # "" THEN 1 ELSE 0)
    + (IF o.createTag # "" THEN 1 ELSE 0)

\* options.remote || "origin"
PushRemote(o) == IF o.remote # "" THEN o.remote ELSE "origin"

RegistryTypes == {"npm", "jsr"}

getRegistryName(r) ==
  IF r = "npm" THEN "npm" ELSE IF r = "jsr" THEN "JSR" ELSE "unknown"

\* name === "npm" ? RegistryType.NPM : RegistryType.JSR
ToRegistryType(name) == IF name = "npm" THEN "npm" ELSE "jsr"

\* rs.map(getRegistryName)
RegistryNames(rs) == [i \in DOMAIN rs |-> getRegistryName(rs[i])]

\* selectedResult.value.map((name) => ...)
ToRegistryTypes(names) == [i \in DOMAIN names |-> ToRegistryType(names[i])]

NpmManifests == {"absent", "unparseable", "noName", "noVersion", "private", "valid"}
JsrManifests == {"absent", "unparseable", "noName", "noVersion", "valid"}

detectNpmPackage(m) ==
  CASE m = "absent" -> [ok |-> FALSE, code |-> "NPM_NOT_FOUND", private |-> FALSE]
    [] m = "unparseable" -> [ok |-> FALSE, code |-> "NPM_PARSE_ERROR", private |-> FALSE]
    [] m \in {"noName", "noVersion"} ->
         [ok |-> FALSE, code |-> "NPM_INVALID_CONFIG", private |-> FALSE]
    [] OTHER -> [ok |-> TRUE, code |-> "", private |-> (m = "private")]

detectJsrPackage(m) ==
  CASE m = "absent" -> [ok |-> FALSE, code |-> "JSR_NOT_FOUND"]
    [] m = "unparseable" -> [ok |-> FALSE, code |-> "JSR_PARSE_ERROR"]
    [] m \in {"noName", "noVersion"} -> [ok |-> FALSE, code |-> "JSR_INVALID_CONFIG"]
    [] OTHER -> [ok |-> TRUE, code |-> ""]

\* mutant of detectRegistries: JSR is probed only next to a package.json
\* that is fit for npm
detectRegistriesNeedsNpm(npm, jsr) ==
  (IF detectNpmPackage(npm).ok /\ ~detectNpmPackage(npm).private
     THEN <<"npm">> ELSE <<>>)
  \o (IF detectNpmPackage(npm).ok /\ detectJsrPackage(jsr).ok THEN <<"jsr">> ELSE <<>>)

detectRegistries(npm, jsr) ==
  (IF detectNpmPackage(npm).ok /\ ~detectNpmPackage(npm).private
     THEN <<"npm">> ELSE <<>>)
  \o (IF detectJsrPackage(jsr).ok THEN <<"jsr">> ELSE <<>>)

\* getGitStatus of git.ts: isDirty of the returned GitStatus, "clean" in a
\* directory that is no repository
isDirty(repo, t) == IF repo /\ Len(t) > 0 THEN "dirty" ELSE "clean"

\* remotes.find((r) => r.name === "origin") || remotes[0]
PrimaryRemote(rs) == IF InSeq("origin", rs) THEN "origin" ELSE rs[1]

\* ------------------------------------------- auto_commit: pure functions
\* the XY status codes of a porcelain line, one character each
XYCodes == {<<" ", "M">>, <<"A", " ">>, <<" ", "D">>, <<"?", "?">>, <<"R", " ">>}
FilePool == <<"a.ts", "b.ts", "c.ts">>

\* the status outputs with n changed files
StatusLines(n) ==
  {[i \in 1..n |-> [xy |-> f[i], file |-> FilePool[i]]] : f \in [1..n -> XYCodes]}
Trees == UNION {StatusLines(n) : n \in 0..MaxFiles}

\* status.includes(ch)
includes(status, ch) == status[1] = ch \/ status[2] = ch

\* the if / else-if chain of parseGitStatus; "none": the line is dropped
ChangeKind(line) ==
  IF includes(line.xy, "M") THEN "modified"
  ELSE IF includes(line.xy, "A") THEN "added"
  ELSE IF includes(line.xy, "D") THEN "deleted"
  ELSE IF includes(line.xy, "?") THEN "untracked"
  ELSE "none"

FilesOfKind(t, kind) ==
  LET sel == SelectSeq(t, LAMBDA l : ChangeKind(l) = kind)
  IN [i \in 1..Len(sel) |-> sel[i].file]

parseGitStatus(t) ==
  [modified |-> FilesOfKind(t, "modified"),
   added |-> FilesOfKind(t, "added"),
   deleted |-> FilesOfKind(t, "deleted"),
   untracked |-> FilesOfKind(t, "untracked"),
   total |-> Len(FilesOfKind(t, "modified")) + Len(FilesOfKind(t, "added"))
             + Len(FilesOfKind(t, "deleted")) + Len(FilesOfKind(t, "untracked"))]

\* file.substring(1): the name without its first character
substring1(file) ==
  CASE file = "a.ts" -> ".ts"
    [] file = "b.ts" -> ".ts"
    [] file = "c.ts" -> ".ts"
    [] OTHER -> file

\* what parseGitStatus reads of the working tree t: executeCommand trims the
\* whole output, so a first line whose X code is a space starts one
\* character early; line.substring(0, 2) is then the Y code and the
\* separator, and line.substring(3) the file name without its first character
StatusOutput(t) ==
  IF Len(t) > 0 /\ t[1].xy[1] = " "
    THEN [t EXCEPT ![1] = [xy |-> <<t[1].xy[2], " ">>,
                           file |-> substring1(t[1].file)]]
    ELSE t

\* getUncommittedChanges on a repository whose working tree is t
getUncommittedChanges(t) == parseGitStatus(StatusOutput(t))

\* one part of generateCommitMessage
MessagePart(verb, files) ==
  IF Len(files) = 1 THEN verb \o " " \o files[1]
  ELSE verb \o " " \o ToString(Len(files)) \o " files"

\* parts never holds more than one part: the modified and the deleted part
\* are pushed only while parts is empty
generateCommitMessage(changes) ==
  IF Len(changes.added) > 0 THEN MessagePart("Add", changes.added)
  ELSE IF Len(changes.modified) > 0 THEN MessagePart("Update", changes.modified)
  ELSE IF Len(changes.deleted) > 0 THEN MessagePart("Delete", changes.deleted)
  ELSE "Update files"

\* the working tree after `git add .`: every change is staged
Stage(t) ==
  [i \in 1..Len(t) |->
     [t[i] EXCEPT !.xy = IF t[i].xy = <<"?", "?">> THEN <<"A", " ">>
                         ELSE IF t[i].xy[1] = " " THEN <<t[i].xy[2], " ">>
                         ELSE <<t[i].xy[1], " ">>]]

\* ------------------------------------------ jsr_validator: pure functions
\* a field value "" is a field that is absent (or empty: both are falsy)
NoConfig ==
  [name |-> "", version |-> "", exports |-> "", license |-> "",
   description |-> ""]
DenoConfigs ==
  [name : {"", "pkg", "@me/pkg"}, version : {"", "1.0", "1.2.3"},
   exports : {"", "./main.ts"}, license : {"", "ISC"},
   description : {"", "a tool"}]

\* RemoteCreationOptions before promptRepoCreation has returned
NoRepoConfig == [name |-> "", isPrivate |-> FALSE, platform |-> ""]

\* deno.json: missing, not parseable, or holding a DenoConfig
Manifests ==
  {[file |-> f, config |-> NoConfig] : f \in {"missing", "unparseable"}}
    \cup {[file |-> "ok", config |-> c] : c \in DenoConfigs}

\* /^@[a-z0-9-]+\/[a-z0-9-]+$/ over the names of the model
validateJsrName(name) == name \in {"@me/pkg", "@me/tool"}

\* /^\d+\.\d+\.\d+(-[a-zA-Z0-9.-]+)?(\+[a-zA-Z0-9.-]+)?$/ over the versions
\* of the model
validateSemver(version) == version \in {"0.1.0", "1.2.3"}

\* mutant of validateJsrConfig: a manifest without license is not valid
validateJsrConfigLicenseRequired(m) ==
  IF m.file # "ok"
    THEN [isValid |-> FALSE, hasConfig |-> FALSE, hasName |-> FALSE,
          hasValidName |-> FALSE, hasVersion |-> FALSE,
          hasValidVersion |-> FALSE, hasExports |-> FALSE,
          hasLicense |-> FALSE, currentConfig |-> NoConfig,
          issues |-> <<"deno.json file not found">>,
          suggestions |-> <<"Create a deno.json file">>]
    ELSE LET c == m.config
             okName == c.name # "" /\ validateJsrName(c.name)
             okVersion == c.version # "" /\ validateSemver(c.version)
         IN [isValid |-> okName /\ okVersion /\ c.exports # "" /\ c.license # "",
             hasConfig |-> TRUE,
             hasName |-> c.name # "",
             hasValidName |-> okName,
             hasVersion |-> c.version # "",
             hasValidVersion |-> okVersion,
             hasExports |-> c.exports # "",
             hasLicense |-> c.license # "",
             currentConfig |-> c,
             issues |->
               (IF c.name = "" THEN <<"Missing 'name' field">>
                ELSE IF ~okName THEN <<"Invalid name format">> ELSE <<>>)
               \o (IF c.version = "" THEN <<"Missing 'version' field">>
                   ELSE IF ~okVersion THEN <<"Invalid version format">>
                   ELSE <<>>)
               \o (IF c.exports = "" THEN <<"Missing 'exports' field">>
                   ELSE <<>>),
             suggestions |->
               (IF c.name = "" THEN <<"Add 'name' field">>
                ELSE IF ~okName THEN <<"Use format: @your-username/package-name">>
                ELSE <<>>)
               \o (IF c.version = "" THEN <<"Add 'version' field">>
                   ELSE IF ~okVersion THEN <<"Use semver format">> ELSE <<>>)
               \o (IF c.exports = "" THEN <<"Add 'exports' field">> ELSE <<>>)
               \o (IF c.license = "" THEN <<"Consider adding 'license' field">>
                   ELSE <<>>)]

validateJsrConfig(m) ==
  IF m.file # "ok"
    THEN [isValid |-> FALSE, hasConfig |-> FALSE, hasName |-> FALSE,
          hasValidName |-> FALSE, hasVersion |-> FALSE,
          hasValidVersion |-> FALSE, hasExports |-> FALSE,
          hasLicense |-> FALSE, currentConfig |-> NoConfig,
          issues |-> <<"deno.json file not found">>,
          suggestions |-> <<"Create a deno.json file">>]
    ELSE LET c == m.config
             okName == c.name # "" /\ validateJsrName(c.name)
             okVersion == c.version # "" /\ validateSemver(c.version)
         IN [isValid |-> okName /\ okVersion /\ c.exports # "",
             hasConfig |-> TRUE,
             hasName |-> c.name # "",
             hasValidName |-> okName,
             hasVersion |-> c.version # "",
             hasValidVersion |-> okVersion,
             hasExports |-> c.exports # "",
             hasLicense |-> c.license # "",
             currentConfig |-> c,
             issues |->
               (IF c.name = "" THEN <<"Missing 'name' field">>
                ELSE IF ~okName THEN <<"Invalid name format">> ELSE <<>>)
               \o (IF c.version = "" THEN <<"Missing 'version' field">>
                   ELSE IF ~okVersion THEN <<"Invalid version format">>
                   ELSE <<>>)
               \o (IF c.exports = "" THEN <<"Missing 'exports' field">>
                   ELSE <<>>),
             suggestions |->
               (IF c.name = "" THEN <<"Add 'name' field">>
                ELSE IF ~okName THEN <<"Use format: @your-username/package-name">>
                ELSE <<>>)
               \o (IF c.version = "" THEN <<"Add 'version' field">>
                   ELSE IF ~okVersion THEN <<"Use semver format">> ELSE <<>>)
               \o (IF c.exports = "" THEN <<"Add 'exports' field">> ELSE <<>>)
               \o (IF c.license = "" THEN <<"Consider adding 'license' field">>
                   ELSE <<>>)]

\* ------------------------------------------------------------------- init
\* options.registries, the values of --registry; <<>> is the option left out
RegistrySubsets == {<<>>, <<"npm">>, <<"jsr">>}

OptionRecords ==
  [branch : {"", BranchPool[1]}, tag : {"", TagPool[1]},
   createTag : {"", TagPool[1]}, remote : {"", "origin", "upstream"},
   skipRegistries : BOOLEAN, force : BOOLEAN, dryRun : BOOLEAN,
   registries : RegistrySubsets]

RemoteConfigs == {<<>>, <<"origin">>, <<"upstream">>, <<"upstream", "origin">>}

\* publish or the default command is about to run
InitPublish ==
  /\ entry \in {"cli", "api"}
  /\ opts \in OptionRecords
  /\ entry = "cli" => opts.remote # ""
  /\ opts.registries # <<>> =>
       /\ opts.branch = BranchPool[1]
       /\ opts.tag = ""
       /\ opts.createTag = ""
       /\ opts.remote = "origin"
       /\ ~opts.skipRegistries
       /\ ~opts.force
  /\ isRepo \in BOOLEAN
  /\ remotes \in RemoteConfigs
  /\ tags \in SUBSET TagNames
  /\ ~isRepo => (remotes = <<>> /\ tags = {})
  /\ pc = IF entry = "cli" THEN "cli" ELSE "verifyGitSetup"
  /\ trace = <<>>
  /\ remote = ""
  /\ gitRef = ""
  /\ branchList = <<>>
  /\ tagList = <<>>
  /\ newTag = <<>>
  /\ registries = <<>>
  /\ picked = <<>>
  /\ selectedRegistries = <<>>
  /\ idx = 0
  /\ result = ""
  /\ exitCode = -1
  /\ gitignore = TRUE
  /\ gitUser = {"name", "email"}
  /\ commits = 0
  /\ cli = {}
  /\ hosted = {}
  /\ writes = <<>>
  /\ calls = 0
  /\ validation = validateJsrConfig([file |-> "missing", config |-> NoConfig])
  /\ config = NoConfig
  /\ packageJson = "absent"
  /\ denoJson = [file |-> "missing", config |-> NoConfig]
  /\ jsrJson = "absent"
  /\ repoConfig = NoRepoConfig
  /\ commitMessage = ""

\* the run starts with nothing to commit
Init ==
  /\ InitPublish
  /\ tree = <<>>

\* the run starts with uncommitted changes: a modified tracked file in a
\* repository, an untracked file in a directory that is no repository yet
InitDirty ==
  /\ InitPublish
  /\ tree = <<[xy |-> IF isRepo THEN <<" ", "M">> ELSE <<"?", "?">>,
               file |-> FilePool[1]]>>

\* --------------------------------------------------------- frame shorthand
RepoVars == <<isRepo, remotes, tags>>
\* state of the project directory and of the remediation sub-flows that
\* publish never writes
EnvVars == <<tree, gitignore, gitUser, commits, cli, hosted, writes>>
FlowVars == <<calls, validation, config, repoConfig, commitMessage>>
ManifestVars == <<packageJson, denoJson, jsrJson>>
SubFlowVars == <<EnvVars, FlowVars, ManifestVars>>
LocalVars == <<remote, gitRef, branchList, tagList, newTag, registries,
               picked, selectedRegistries, idx>>

\* publish returns r after the calls evs
Return(r, evs) ==
  /\ trace' = trace \o evs
  /\ result' = r
  /\ pc' = "returned"

\* publish goes on at p after the calls evs
Goto(p, evs) ==
  /\ trace' = trace \o evs
  /\ pc' = p
  /\ UNCHANGED result

\* ----------------------------------------------------------- cli.ts action
\* mutant of CliValidate: the mutual-exclusion check is missing
CliValidateNoCheck ==
  /\ pc = "cli"
  /\ pc' = "verifyGitSetup"
  /\ UNCHANGED <<SubFlowVars, entry, opts, RepoVars, LocalVars, trace, result, exitCode>>

CliValidate ==
  /\ pc = "cli"
  /\ IF MutuallyExclusiveCount(opts) > 1
       THEN /\ trace' = Append(trace, Ev("cli", "logger.error", <<"mutually exclusive">>, TRUE))
            /\ exitCode' = 1
            /\ pc' = "exited"
       ELSE /\ pc' = "verifyGitSetup"
            /\ UNCHANGED <<trace, exitCode>>
  /\ UNCHANGED <<SubFlowVars, entry, opts, RepoVars, LocalVars, result>>

CliExit ==
  /\ pc = "returned"
  /\ entry = "cli"
  /\ exitCode' = IF result = "OK" THEN 0 ELSE 1
  /\ trace' = Append(trace,
       IF result = "OK" THEN Ev("cli", "logger.success", <<"All done">>, TRUE)
       ELSE Ev("cli", "logger.error", <<"Publish failed", result>>, TRUE))
  /\ pc' = "exited"
  /\ UNCHANGED <<SubFlowVars, entry, opts, RepoVars, LocalVars, result>>

\* ------------------------------------------------- phase 1: verifyGitSetup
\* mutant of IsGitInstalled: the workflow goes on without git
IsGitInstalledIgnored ==
  /\ pc = "verifyGitSetup"
  /\ \E installed \in BOOLEAN :
       Goto("getGitStatus",
            <<Ev("verifyGitSetup", "isGitInstalled", <<>>, installed)>>)
  /\ UNCHANGED <<SubFlowVars, entry, opts, RepoVars, LocalVars, exitCode>>

IsGitInstalled ==
  /\ pc = "verifyGitSetup"
  /\ \E installed \in BOOLEAN :
       IF installed
         THEN Goto("getGitStatus", <<Ev("verifyGitSetup", "isGitInstalled", <<>>, TRUE)>>)
         ELSE Return("GIT_NOT_INSTALLED",
                     <<Ev("verifyGitSetup", "isGitInstalled", <<>>, FALSE)>>)
  /\ UNCHANGED <<SubFlowVars, entry, opts, RepoVars, LocalVars, exitCode>>

\* getGitStatus of git.ts returns Ok on every path, so the Err branch of
\* verifyGitSetup is never taken
GetGitStatus ==
  /\ pc = "getGitStatus"
  /\ Goto(IF isRepo THEN "getPrimaryRemote" ELSE "promptInitGit",
          <<EvR("verifyGitSetup", "getGitStatus", <<>>, isDirty(isRepo, tree))>>)
  /\ UNCHANGED <<SubFlowVars, entry, opts, RepoVars, LocalVars, exitCode>>

\* mutant of PromptInitGit: the exception of an aborted prompt escapes publish
PromptInitGitAbortEscapes ==
  /\ pc = "promptInitGit"
  /\ \E answer \in {"yes", "no", "abort"} :
       CASE answer = "yes" ->
              Goto("initGitRepository",
                   <<EvR("verifyGitSetup", "promptInitGit", <<>>, answer)>>)
         [] answer = "no" ->
              Return("NOT_GIT_REPO",
                     <<EvR("verifyGitSetup", "promptInitGit", <<>>, answer)>>)
         [] OTHER ->
              Return("THROWN",
                     <<Ev("verifyGitSetup", "promptInitGit", <<>>, FALSE)>>)
  /\ UNCHANGED <<SubFlowVars, entry, opts, RepoVars, LocalVars, exitCode>>

\* interactive.ts promptInitGit has no try/catch: an aborted prompt throws
\* into the try/catch of publish
PromptInitGit ==
  /\ pc = "promptInitGit"
  /\ \E answer \in {"yes", "no", "abort"} :
       CASE answer = "yes" ->
              Goto("initGitRepository",
                   <<EvR("verifyGitSetup", "promptInitGit", <<>>, answer)>>)
         [] answer = "no" ->
              Return("NOT_GIT_REPO",
                     <<EvR("verifyGitSetup", "promptInitGit", <<>>, answer)>>)
         [] OTHER ->
              Return("PUBLISH_FAILED",
                     <<Ev("verifyGitSetup", "promptInitGit", <<>>, FALSE)>>)
  /\ UNCHANGED <<SubFlowVars, entry, opts, RepoVars, LocalVars, exitCode>>

\* mutant of InitGitRepository: a failed git init does not stop the workflow
InitGitRepositoryFailureIgnored ==
  /\ pc = "initGitRepository"
  /\ \E ok \in BOOLEAN :
       /\ Goto("getPrimaryRemote",
               <<Ev("verifyGitSetup", "initGitRepository", <<>>, ok)>>)
       /\ isRepo' = ok
  /\ UNCHANGED <<SubFlowVars, entry, opts, remotes, tags, LocalVars, exitCode>>

InitGitRepository ==
  /\ pc = "initGitRepository"
  /\ \E ok \in BOOLEAN :
       IF ok
         THEN /\ Goto("getPrimaryRemote",
                      <<Ev("verifyGitSetup", "initGitRepository", <<>>, TRUE)>>)
              /\ isRepo' = TRUE
         ELSE /\ Return("GIT_INIT_FAILED",
                        <<Ev("verifyGitSetup", "initGitRepository", <<>>, FALSE)>>)
              /\ UNCHANGED isRepo
  /\ UNCHANGED <<SubFlowVars, entry, opts, remotes, tags, LocalVars, exitCode>>

\* --------------------------------------------- phase 2: getPrimaryRemote
\* mutant of GetPrimaryRemote: a failed remote query does not stop the
\* workflow
GetPrimaryRemoteFailureIgnored ==
  /\ pc = "getPrimaryRemote"
  /\ \E ok \in BOOLEAN :
       IF ~ok
         THEN /\ Goto("verifyAuth",
                      <<Ev("getPrimaryRemote", "getRemotes", <<>>, FALSE)>>)
              /\ remote' = "origin"
         ELSE IF remotes = <<>>
           THEN /\ Return("NO_REMOTE",
                          <<Ev("getPrimaryRemote", "getRemotes", <<>>, TRUE),
                            Ev("publish", "displayRemoteSetup", <<>>, TRUE)>>)
                /\ UNCHANGED remote
           ELSE /\ remote' = PrimaryRemote(remotes)
                /\ Goto("verifyAuth",
                        <<Ev("getPrimaryRemote", "getRemotes", <<>>, TRUE),
                          Ev("publish", "logger.success",
                             <<"Remote", PrimaryRemote(remotes)>>, TRUE)>>)
  /\ UNCHANGED <<SubFlowVars, entry, opts, RepoVars, gitRef, branchList, tagList, newTag,
                 registries, picked, selectedRegistries, idx, exitCode>>

GetPrimaryRemote ==
  /\ pc = "getPrimaryRemote"
  /\ \E ok \in BOOLEAN :
       IF ~ok
         THEN /\ Return("GIT_REMOTES_FAILED",
                        <<Ev("getPrimaryRemote", "getRemotes", <<>>, FALSE),
                          Ev("publish", "displayRemoteSetup", <<>>, TRUE)>>)
              /\ UNCHANGED remote
         ELSE IF remotes = <<>>
           THEN /\ Return("NO_REMOTE",
                          <<Ev("getPrimaryRemote", "getRemotes", <<>>, TRUE),
                            Ev("publish", "displayRemoteSetup", <<>>, TRUE)>>)
                /\ UNCHANGED remote
           ELSE /\ remote' = PrimaryRemote(remotes)
                /\ Goto("verifyAuth",
                        <<Ev("getPrimaryRemote", "getRemotes", <<>>, TRUE),
                          Ev("publish", "logger.success",
                             <<"Remote", PrimaryRemote(remotes)>>, TRUE)>>)
  /\ UNCHANGED <<SubFlowVars, entry, opts, RepoVars, gitRef, branchList, tagList, newTag,
                 registries, picked, selectedRegistries, idx, exitCode>>

\* --------------------------------------------------- phase 3: verifyAuth
\* detectAuthMethod(remoteUrl) of the remote's URL
AuthMethods == {"ssh", "https", "unknown"}

\* mutant of VerifyAuth: a failed probe is reported and the workflow goes on
VerifyAuthBypass ==
  /\ pc = "verifyAuth"
  /\ \E canPush \in BOOLEAN :
       /\ canPush => InSeq(PushRemote(opts), remotes)
       /\ IF canPush
            THEN Goto("determineGitRef",
                      <<Ev("verifyAuth", "canPush", <<PushRemote(opts)>>, TRUE)>>)
            ELSE \E authMethod \in AuthMethods :
                   Goto("determineGitRef",
                        <<Ev("verifyAuth", "canPush", <<PushRemote(opts)>>, FALSE),
                          Ev("verifyAuth", "displayAuthSetup", <<authMethod>>, TRUE)>>)
  /\ UNCHANGED <<SubFlowVars, entry, opts, RepoVars, LocalVars, exitCode>>

\* `git push --dry-run <remote>` cannot succeed for a remote that is not
\* configured
VerifyAuth ==
  /\ pc = "verifyAuth"
  /\ \E canPush \in BOOLEAN :
       /\ canPush => InSeq(PushRemote(opts), remotes)
       /\ IF canPush
            THEN Goto("determineGitRef",
                      <<Ev("verifyAuth", "canPush", <<PushRemote(opts)>>, TRUE)>>)
            ELSE \E authMethod \in AuthMethods :
                   Return("AUTH_FAILED",
                          <<Ev("verifyAuth", "canPush", <<PushRemote(opts)>>, FALSE),
                            Ev("verifyAuth", "displayAuthSetup", <<authMethod>>, TRUE)>>)
  /\ UNCHANGED <<SubFlowVars, entry, opts, RepoVars, LocalVars, exitCode>>

\* ----------------------------------------------- phase 4: determineGitRef
\* mutant of ResolveStrategy: an explicit tag wins over an explicit branch
ResolveStrategyTagFirst(o) ==
  IF o.tag # "" THEN "tag"
  ELSE IF o.branch # "" THEN "branch"
  ELSE IF o.createTag # "" THEN "createTag"
  ELSE "interactive"

ResolveStrategy(o) ==
  IF o.branch # "" THEN "branch"
  ELSE IF o.tag # "" THEN "tag"
  ELSE IF o.createTag # "" THEN "createTag"
  ELSE "interactive"

RefExplicit ==
  /\ pc = "determineGitRef"
  /\ ResolveStrategy(opts) \in {"branch", "tag"}
  /\ gitRef' = IF ResolveStrategy(opts) = "branch" THEN opts.branch ELSE opts.tag
  /\ Goto("detectRegistries",
          <<Ev("publish", "logger.success", <<"Publishing", gitRef'>>, TRUE)>>)
  /\ UNCHANGED <<SubFlowVars, entry, opts, RepoVars, remote, branchList, tagList, newTag,
                 registries, picked, selectedRegistries, idx, exitCode>>

\* mutant of CreateTag: the workflow goes on with a tag that was not created
CreateTagFailureIgnored(name, message) ==
  \E ok \in BOOLEAN :
    /\ ok => name \notin tags
    /\ tags' = IF ok THEN tags \cup {name} ELSE tags
    /\ gitRef' = name
    /\ Goto("detectRegistries",
            <<Ev("determineGitRef", "createTag", <<name, message>>, ok),
              Ev("publish", "logger.success", <<"Publishing", name>>, TRUE)>>)

\* createTag of git.ts; `git tag <name>` cannot succeed when the tag exists
CreateTag(name, message) ==
  \E ok \in BOOLEAN :
    /\ ok => name \notin tags
    /\ IF ok
         THEN /\ tags' = tags \cup {name}
              /\ gitRef' = name
              /\ Goto("detectRegistries",
                      <<Ev("determineGitRef", "createTag", <<name, message>>, TRUE),
                        Ev("publish", "logger.success", <<"Publishing", name>>, TRUE)>>)
         ELSE /\ Return("GIT_TAG_FAILED",
                        <<Ev("determineGitRef", "createTag", <<name, message>>, FALSE)>>)
              /\ UNCHANGED <<tags, gitRef>>

RefCreateTag ==
  /\ pc = "determineGitRef"
  /\ ResolveStrategy(opts) = "createTag"
  /\ CreateTag(opts.createTag, "")
  /\ UNCHANGED <<SubFlowVars, entry, opts, isRepo, remotes, remote, branchList, tagList,
                 newTag, registries, picked, selectedRegistries, idx, exitCode>>

PromptPublishType ==
  /\ pc = "determineGitRef"
  /\ ResolveStrategy(opts) = "interactive"
  /\ \E type \in {"branch", "tag", "create-tag", "abort"} :
       CASE type = "branch" ->
              Goto("getBranches",
                   <<EvR("determineGitRef", "promptPublishType", <<>>, type)>>)
         [] type = "tag" ->
              Goto("getTags",
                   <<EvR("determineGitRef", "promptPublishType", <<>>, type)>>)
         [] type = "create-tag" ->
              Goto("promptCreateTag",
                   <<EvR("determineGitRef", "promptPublishType", <<>>, type)>>)
         [] OTHER ->
              Return("PROMPT_CANCELLED",
                     <<Ev("determineGitRef", "promptPublishType", <<>>, FALSE)>>)
  /\ UNCHANGED <<SubFlowVars, entry, opts, RepoVars, LocalVars, exitCode>>

\* the local branches of the repository are read here and nowhere else
BranchLists ==
  {<<>>} \cup {<<b>> : b \in BranchNames}
    \cup {SelectSeq(BranchPool, LAMBDA b : b \in BranchNames)}

GetBranches ==
  /\ pc = "getBranches"
  /\ \E ok \in BOOLEAN, bs \in BranchLists :
       IF ok
         THEN /\ branchList' = bs
              /\ Goto("getGitStatusRef",
                      <<Ev("determineGitRef", "getBranches", <<>>, TRUE)>>)
         ELSE /\ bs = <<>>
              /\ Return("GIT_BRANCHES_FAILED",
                        <<Ev("determineGitRef", "getBranches", <<>>, FALSE)>>)
              /\ UNCHANGED branchList
  /\ UNCHANGED <<SubFlowVars, entry, opts, RepoVars, remote, gitRef, tagList, newTag,
                 registries, picked, selectedRegistries, idx, exitCode>>

GetGitStatusRef ==
  /\ pc = "getGitStatusRef"
  /\ Goto("promptSelectBranch",
          <<EvR("determineGitRef", "getGitStatus", <<>>, isDirty(isRepo, tree))>>)
  /\ UNCHANGED <<SubFlowVars, entry, opts, RepoVars, LocalVars, exitCode>>

PromptSelectBranch ==
  /\ pc = "promptSelectBranch"
  /\ IF branchList = <<>>
       THEN /\ Return("NO_BRANCHES", <<>>)
            /\ UNCHANGED gitRef
       ELSE \E i \in 0..Len(branchList) :
              IF i = 0
                THEN /\ Return("PROMPT_CANCELLED",
                          <<Ev("determineGitRef", "promptSelectBranch", branchList, FALSE)>>)
                     /\ UNCHANGED gitRef
                ELSE /\ gitRef' = branchList[i]
                     /\ Goto("detectRegistries",
                          <<EvR("determineGitRef", "promptSelectBranch", branchList,
                                branchList[i]),
                            Ev("publish", "logger.success",
                               <<"Publishing", branchList[i]>>, TRUE)>>)
  /\ UNCHANGED <<SubFlowVars, entry, opts, RepoVars, remote, branchList, tagList, newTag,
                 registries, picked, selectedRegistries, idx, exitCode>>

\* `git tag --list` prints the tags in lexicographic order
GetTags ==
  /\ pc = "getTags"
  /\ \E ok \in BOOLEAN :
       IF ok
         THEN /\ tagList' = SelectSeq(TagPool, LAMBDA t : t \in tags)
              /\ Goto("promptSelectTag",
                      <<Ev("determineGitRef", "getTags", <<>>, TRUE)>>)
         ELSE /\ Return("GIT_TAGS_FAILED",
                        <<Ev("determineGitRef", "getTags", <<>>, FALSE)>>)
              /\ UNCHANGED tagList
  /\ UNCHANGED <<SubFlowVars, entry, opts, RepoVars, remote, gitRef, branchList, newTag,
                 registries, picked, selectedRegistries, idx, exitCode>>

PromptSelectTag ==
  /\ pc = "promptSelectTag"
  /\ IF tagList = <<>>
       THEN /\ Return("NO_TAGS", <<>>)
            /\ UNCHANGED gitRef
       ELSE \E i \in 0..Len(tagList) :
              IF i = 0
                THEN /\ Return("PROMPT_CANCELLED",
                          <<Ev("determineGitRef", "promptSelectTag", tagList, FALSE)>>)
                     /\ UNCHANGED gitRef
                ELSE /\ gitRef' = tagList[i]
                     /\ Goto("detectRegistries",
                          <<EvR("determineGitRef", "promptSelectTag", tagList, tagList[i]),
                            Ev("publish", "logger.success",
                               <<"Publishing", tagList[i]>>, TRUE)>>)
  /\ UNCHANGED <<SubFlowVars, entry, opts, RepoVars, remote, branchList, tagList, newTag,
                 registries, picked, selectedRegistries, idx, exitCode>>

\* the tag message is "" when the user adds none
TagMessages == {"", "release"}

PromptCreateTag ==
  /\ pc = "promptCreateTag"
  /\ \E name \in TagNames \cup {""}, message \in TagMessages :
       IF name = ""
         THEN /\ message = ""
              /\ Return("PROMPT_CANCELLED",
                        <<Ev("determineGitRef", "promptCreateTag", <<>>, FALSE)>>)
              /\ UNCHANGED newTag
         ELSE /\ newTag' = <<name, message>>
              /\ Goto("createTag",
                      <<Ev("determineGitRef", "promptCreateTag", <<name, message>>, TRUE)>>)
  /\ UNCHANGED <<SubFlowVars, entry, opts, RepoVars, remote, gitRef, branchList, tagList,
                 registries, picked, selectedRegistries, idx, exitCode>>

CreateTagInteractive ==
  /\ pc = "createTag"
  /\ CreateTag(newTag[1], newTag[2])
  /\ UNCHANGED <<SubFlowVars, entry, opts, isRepo, remotes, remote, branchList, tagList,
                 newTag, registries, picked, selectedRegistries, idx, exitCode>>

\* ---------------------------------------- phases 5, 6: detect and select
\* mutant of DetectRegistries: options.skipRegistries is not looked at
DetectRegistriesIgnoresSkip ==
  /\ pc = "detectRegistries"
  /\ \E npm \in NpmManifests, jsr \in JsrManifests :
       /\ registries' = detectRegistries(npm, jsr)
       /\ picked' = <<>>
       /\ IF Len(registries') > 0
            THEN /\ idx' = 1
                 /\ Goto("promptSelectRegistries",
                         <<Ev("publish", "detectRegistries", registries', TRUE)>>)
            ELSE /\ idx' = 0
                 /\ Goto("confirm",
                         <<Ev("publish", "detectRegistries", registries', TRUE)>>)
  /\ UNCHANGED <<SubFlowVars, entry, opts, RepoVars, remote, gitRef, branchList, tagList,
                 newTag, selectedRegistries, exitCode>>

\* publish, phases 5 and 6 up to the call of promptSelectRegistries; the
\* manifests are read here and nowhere else
DetectRegistries ==
  /\ pc = "detectRegistries"
  /\ \E npm \in NpmManifests, jsr \in JsrManifests :
       /\ registries' = detectRegistries(npm, jsr)
       /\ picked' = <<>>
       /\ IF ~opts.skipRegistries /\ Len(registries') > 0
            THEN /\ idx' = 1
                 /\ Goto("promptSelectRegistries",
                         <<Ev("publish", "detectRegistries", registries', TRUE)>>)
            ELSE /\ idx' = 0
                 /\ Goto("confirm",
                         <<Ev("publish", "detectRegistries", registries', TRUE)>>)
  /\ UNCHANGED <<SubFlowVars, entry, opts, RepoVars, remote, gitRef, branchList, tagList,
                 newTag, selectedRegistries, exitCode>>

\* registries.map((r) => getRegistryName(r.registry))
AvailableRegistries == RegistryNames(registries)

\* mutant of PromptSelectRegistries: a registry is selected whatever the
\* answer is
PromptSelectRegistriesTakesAll ==
  /\ pc = "promptSelectRegistries"
  /\ idx <= Len(AvailableRegistries)
  /\ \E answer \in {"yes", "no", "abort"} :
       IF answer = "abort"
         THEN /\ Return("PROMPT_CANCELLED",
                   <<Ev("promptSelectRegistries", "Confirm.prompt",
                        <<AvailableRegistries[idx]>>, FALSE)>>)
              /\ UNCHANGED <<picked, idx, selectedRegistries>>
         ELSE /\ picked' = Append(picked, AvailableRegistries[idx])
              /\ idx' = idx + 1
              /\ IF idx' > Len(AvailableRegistries)
                   THEN /\ selectedRegistries' = ToRegistryTypes(picked')
                        /\ Goto("confirm",
                             <<EvR("promptSelectRegistries", "Confirm.prompt",
                                   <<AvailableRegistries[idx]>>, answer)>>)
                   ELSE /\ UNCHANGED selectedRegistries
                        /\ Goto("promptSelectRegistries",
                             <<EvR("promptSelectRegistries", "Confirm.prompt",
                                   <<AvailableRegistries[idx]>>, answer)>>)
  /\ UNCHANGED <<SubFlowVars, entry, opts, RepoVars, remote, gitRef, branchList, tagList,
                 newTag, registries, exitCode>>

\* one Confirm.prompt of promptSelectRegistries; after the last one the
\* result is mapped back to RegistryType by publish
PromptSelectRegistries ==
  /\ pc = "promptSelectRegistries"
  /\ idx <= Len(AvailableRegistries)
  /\ \E answer \in {"yes", "no", "abort"} :
       IF answer = "abort"
         THEN /\ Return("PROMPT_CANCELLED",
                   <<Ev("promptSelectRegistries", "Confirm.prompt",
                        <<AvailableRegistries[idx]>>, FALSE)>>)
              /\ UNCHANGED <<picked, idx, selectedRegistries>>
         ELSE /\ picked' = IF answer = "yes"
                             THEN Append(picked, AvailableRegistries[idx])
                             ELSE picked
              /\ idx' = idx + 1
              /\ IF idx' > Len(AvailableRegistries)
                   THEN /\ selectedRegistries' = ToRegistryTypes(picked')
                        /\ Goto("confirm",
                             <<EvR("promptSelectRegistries", "Confirm.prompt",
                                   <<AvailableRegistries[idx]>>, answer)>>)
                   ELSE /\ UNCHANGED selectedRegistries
                        /\ Goto("promptSelectRegistries",
                             <<EvR("promptSelectRegistries", "Confirm.prompt",
                                   <<AvailableRegistries[idx]>>, answer)>>)
  /\ UNCHANGED <<SubFlowVars, entry, opts, RepoVars, remote, gitRef, branchList, tagList,
                 newTag, registries, exitCode>>

\* --------------------------------------------------------- phase 7: confirm
\* mutant of PromptConfirmPublish: a declined confirmation is an error
PromptConfirmPublishDeclineFails ==
  /\ pc = "confirm"
  /\ IF opts.dryRun
       THEN Goto("execute", <<>>)
       ELSE \E answer \in {"yes", "no", "abort"} :
              LET args == <<gitRef, remote>>
                            \o RegistryNames(selectedRegistries)
                  call == IF answer = "abort"
                            THEN Ev("publish", "promptConfirmPublish", args, FALSE)
                            ELSE EvR("publish", "promptConfirmPublish", args, answer)
              IN IF answer = "yes"
                   THEN Goto("execute", <<call>>)
                   ELSE Return("PUBLISH_CANCELLED",
                          <<call, Ev("publish", "logger.warn",
                                     <<"Publish cancelled by user">>, TRUE)>>)
  /\ UNCHANGED <<SubFlowVars, entry, opts, RepoVars, LocalVars, exitCode>>

\* promptConfirmPublish catches an aborted prompt and returns false
PromptConfirmPublish ==
  /\ pc = "confirm"
  /\ IF opts.dryRun
       THEN Goto("execute", <<>>)
       ELSE \E answer \in {"yes", "no", "abort"} :
              LET args == <<gitRef, remote>>
                            \o RegistryNames(selectedRegistries)
                  call == IF answer = "abort"
                            THEN Ev("publish", "promptConfirmPublish", args, FALSE)
                            ELSE EvR("publish", "promptConfirmPublish", args, answer)
              IN IF answer = "yes"
                   THEN Goto("execute", <<call>>)
                   ELSE Return("OK",
                          <<call, Ev("publish", "logger.warn",
                                     <<"Publish cancelled by user">>, TRUE)>>)
  /\ UNCHANGED <<SubFlowVars, entry, opts, RepoVars, LocalVars, exitCode>>

\* --------------------------------------------------------- phase 8: execute
ExecuteDryRun ==
  /\ pc = "execute"
  /\ opts.dryRun
  /\ Return("OK",
       <<Ev("publish", "logger.info", <<"Would push", gitRef, remote>>, TRUE)>>
       \o (IF Len(selectedRegistries) > 0
             THEN <<Ev("publish", "logger.info",
                       <<"Would publish to">>
                         \o RegistryNames(selectedRegistries), TRUE)>>
             ELSE <<>>))
  /\ UNCHANGED <<SubFlowVars, entry, opts, RepoVars, LocalVars, exitCode>>

\* mutant of Push: the push is made in a dry run too
PushDespiteDryRun ==
  /\ pc = "execute"
  /\ \E ok \in BOOLEAN :
       /\ ok => InSeq(PushRemote(opts), remotes)
       /\ LET call == Ev("publish", "push",
                         <<PushRemote(opts), gitRef>>
                           \o (IF opts.force THEN <<"--force">> ELSE <<>>), ok)
          IN IF ok
               THEN /\ idx' = 1
                    /\ Goto("publishToRegistry", <<call>>)
               ELSE /\ UNCHANGED idx
                    /\ Return("GIT_PUSH_FAILED", <<call>>)
  /\ UNCHANGED <<SubFlowVars, entry, opts, RepoVars, remote, gitRef, branchList, tagList,
                 newTag, registries, picked, selectedRegistries, exitCode>>

\* mutant of Push: a failed push does not stop the workflow
PushFailureIgnored ==
  /\ pc = "execute"
  /\ ~opts.dryRun
  /\ \E ok \in BOOLEAN :
       /\ ok => InSeq(PushRemote(opts), remotes)
       /\ idx' = 1
       /\ Goto("publishToRegistry",
               <<Ev("publish", "push",
                    <<PushRemote(opts), gitRef>>
                      \o (IF opts.force THEN <<"--force">> ELSE <<>>), ok)>>)
  /\ UNCHANGED <<SubFlowVars, entry, opts, RepoVars, remote, gitRef, branchList, tagList,
                 newTag, registries, picked, selectedRegistries, exitCode>>

\* `git push <remote> <ref>` cannot succeed for a remote that is not
\* configured
Push ==
  /\ pc = "execute"
  /\ ~opts.dryRun
  /\ \E ok \in BOOLEAN :
       /\ ok => InSeq(PushRemote(opts), remotes)
       /\ LET call == Ev("publish", "push",
                         <<PushRemote(opts), gitRef>>
                           \o (IF opts.force THEN <<"--force">> ELSE <<>>), ok)
          IN IF ok
               THEN /\ idx' = 1
                    /\ Goto("publishToRegistry", <<call>>)
               ELSE /\ UNCHANGED idx
                    /\ Return("GIT_PUSH_FAILED", <<call>>)
  /\ UNCHANGED <<SubFlowVars, entry, opts, RepoVars, remote, gitRef, branchList, tagList,
                 newTag, registries, picked, selectedRegistries, exitCode>>

\* mutant of PublishToRegistry: the loop ends at the first failed publish
PublishToRegistryStopOnFailure ==
  /\ pc = "publishToRegistry"
  /\ idx <= Len(selectedRegistries)
  /\ \E ok \in BOOLEAN :
       /\ Goto("publishToRegistry",
            <<Ev("publish", "publishToRegistry", <<selectedRegistries[idx]>>, ok)>>
            \o (IF ok THEN <<>>
                ELSE <<Ev("publish", "logger.error",
                          <<"Failed to publish to",
                            getRegistryName(selectedRegistries[idx])>>, TRUE)>>))
       /\ idx' = IF ok THEN idx + 1 ELSE Len(selectedRegistries) + 1
  /\ UNCHANGED <<SubFlowVars, entry, opts, RepoVars, remote, gitRef, branchList, tagList,
                 newTag, registries, picked, selectedRegistries, exitCode>>

\* one iteration of the for-of loop over selectedRegistries
PublishToRegistry ==
  /\ pc = "publishToRegistry"
  /\ idx <= Len(selectedRegistries)
  /\ \E ok \in BOOLEAN :
       Goto("publishToRegistry",
            <<Ev("publish", "publishToRegistry", <<selectedRegistries[idx]>>, ok)>>
            \o (IF ok THEN <<>>
                ELSE <<Ev("publish", "logger.error",
                          <<"Failed to publish to",
                            getRegistryName(selectedRegistries[idx])>>, TRUE)>>))
  /\ idx' = idx + 1
  /\ UNCHANGED <<SubFlowVars, entry, opts, RepoVars, remote, gitRef, branchList, tagList,
                 newTag, registries, picked, selectedRegistries, exitCode>>

\* mutant of PublishComplete: a failed registry publish fails the workflow
PublishCompleteStrict ==
  /\ pc = "publishToRegistry"
  /\ idx > Len(selectedRegistries)
  /\ Return(IF \E i \in DOMAIN trace :
                  trace[i].op = "publishToRegistry" /\ ~trace[i].ok
              THEN "PUBLISH_FAILED" ELSE "OK",
            <<Ev("publish", "logger.section", <<"Publish complete">>, TRUE)>>)
  /\ UNCHANGED <<SubFlowVars, entry, opts, RepoVars, LocalVars, exitCode>>

PublishComplete ==
  /\ pc = "publishToRegistry"
  /\ idx > Len(selectedRegistries)
  /\ Return("OK", <<Ev("publish", "logger.section", <<"Publish complete">>, TRUE)>>)
  /\ UNCHANGED <<SubFlowVars, entry, opts, RepoVars, LocalVars, exitCode>>

Next ==
  \/ CliValidate
  \/ CliExit
  \/ IsGitInstalled
  \/ GetGitStatus
  \/ PromptInitGit
  \/ InitGitRepository
  \/ GetPrimaryRemote
  \/ VerifyAuth
  \/ RefExplicit
  \/ RefCreateTag
  \/ PromptPublishType
  \/ GetBranches
  \/ GetGitStatusRef
  \/ PromptSelectBranch
  \/ GetTags
  \/ PromptSelectTag
  \/ PromptCreateTag
  \/ CreateTagInteractive
  \/ DetectRegistries
  \/ PromptSelectRegistries
  \/ PromptConfirmPublish
  \/ ExecuteDryRun
  \/ Push
  \/ PublishToRegistry
  \/ PublishComplete

Spec == Init /\ [][Next]_vars

\* publish run in a directory with uncommitted changes
SpecDirty == InitDirty /\ [][Next]_vars

\* ====================================================== remediation sub-flows
\* autoInitializeGit, autoCreateRemote, autoCommitChanges and
\* autoFixJsrConfig, each called on its own; entry names the one called.
Flows ==
  {"autoInitializeGit", "autoCreateRemote", "autoCommitChanges",
   "autoFixJsrConfig"}
Answers == {"yes", "no", "abort"}

\* the variables of publish, which no sub-flow touches
PublishVars == <<opts, tags, LocalVars, exitCode>>

\* a prompt answered with ret, or aborted
Prompt(by, kind, what, ret) ==
  IF ret = "abort" THEN Ev(by, kind, <<what>>, FALSE)
  ELSE EvR(by, kind, <<what>>, ret)

\* ------------------------------------------------- auto_init.ts
AigFrame ==
  <<entry, PublishVars, ManifestVars, remotes, cli, hosted, writes, calls, validation,
    config, repoConfig>>

\* autoInitializeGit up to the call of promptInitGit
AutoInitializeGit ==
  /\ pc = "call"
  /\ entry = "autoInitializeGit"
  /\ IF isRepo
       THEN Return("OK", <<EvR(entry, "isGitRepository", <<>>, "true")>>)
       ELSE Goto("aig.promptInitGit",
                 <<EvR(entry, "isGitRepository", <<>>, "false")>>)
  /\ UNCHANGED <<AigFrame, isRepo, tree, gitignore, gitUser, commits,
                 commitMessage>>

\* promptInitGit of auto_init.ts and the test of its answer: the catch of
\* promptInitGit turns an aborted prompt into false
AigPromptInitGit ==
  /\ pc = "aig.promptInitGit"
  /\ \E answer \in Answers :
       LET call == Prompt("promptInitGit", "Confirm.prompt", "initialize", answer)
       IN IF answer = "yes"
            THEN Goto("aig.initGit", <<call>>)
            ELSE Return("GIT_INIT_DECLINED", <<call>>)
  /\ UNCHANGED <<AigFrame, isRepo, tree, gitignore, gitUser, commits,
                 commitMessage>>

AigInitGit ==
  /\ pc = "aig.initGit"
  /\ \E ok \in BOOLEAN :
       IF ok
         THEN /\ Goto("aig.createGitignore", <<Ev("initGit", "git init", <<>>, TRUE)>>)
              /\ isRepo' = TRUE
         ELSE /\ Return("GIT_INIT_FAILED", <<Ev("initGit", "git init", <<>>, FALSE)>>)
              /\ UNCHANGED isRepo
  /\ UNCHANGED <<AigFrame, tree, gitignore, gitUser, commits, commitMessage>>

\* mutant of AigCreateGitignoreIfNeeded: the default .gitignore is written
\* over an existing one
AigCreateGitignoreAlways ==
  /\ pc = "aig.createGitignore"
  /\ \E ok \in BOOLEAN :
       /\ Goto("aig.ensureGitUser",
            <<Ev("createGitignoreIfNeeded", "Deno.writeTextFile",
                 <<".gitignore">>, ok)>>
            \o (IF ok THEN <<>>
                ELSE <<Ev(entry, "logger.warn",
                          <<"Failed to create .gitignore">>, TRUE)>>))
       /\ gitignore' = (gitignore \/ ok)
       /\ tree' = IF ok /\ ~gitignore
                    THEN Append(tree, [xy |-> <<"?", "?">>, file |-> ".gitignore"])
                    ELSE tree
  /\ UNCHANGED <<AigFrame, isRepo, gitUser, commits, commitMessage>>

\* createGitignoreIfNeeded and the test of its result: a failed write is
\* only warned about; the new file shows up as untracked
AigCreateGitignoreIfNeeded ==
  /\ pc = "aig.createGitignore"
  /\ IF gitignore
       THEN /\ Goto("aig.ensureGitUser",
                    <<EvR("createGitignoreIfNeeded", "exists", <<".gitignore">>, "true")>>)
            /\ UNCHANGED <<gitignore, tree>>
       ELSE \E ok \in BOOLEAN :
              /\ Goto("aig.ensureGitUser",
                   <<EvR("createGitignoreIfNeeded", "exists", <<".gitignore">>, "false"),
                     Ev("createGitignoreIfNeeded", "Deno.writeTextFile",
                        <<".gitignore">>, ok)>>
                   \o (IF ok THEN <<>>
                       ELSE <<Ev(entry, "logger.warn",
                                 <<"Failed to create .gitignore">>, TRUE)>>))
              /\ gitignore' = ok
              /\ tree' = IF ok
                           THEN Append(tree, [xy |-> <<"?", "?">>, file |-> ".gitignore"])
                           ELSE tree
  /\ UNCHANGED <<AigFrame, isRepo, gitUser, commits, commitMessage>>

\* ensureGitUser up to the end of the user.name part
AigEnsureGitUserName ==
  /\ pc = "aig.ensureGitUser"
  /\ IF gitUser = {"name", "email"}
       THEN /\ Goto("aig.createInitialCommit",
                    <<EvR("ensureGitUser", "git config", <<>>, "configured")>>)
            /\ UNCHANGED gitUser
       ELSE IF "name" \in gitUser
         THEN /\ Goto("aig.ensureGitUserEmail",
                      <<EvR("ensureGitUser", "git config", <<>>, "name")>>)
              /\ UNCHANGED gitUser
         ELSE \E answer \in {"typed", "abort"}, ok \in BOOLEAN :
                LET read == EvR("ensureGitUser", "git config", <<>>, "")
                    ask == Prompt("ensureGitUser", "Input.prompt", "name", answer)
                    set == Ev("ensureGitUser", "git config user.name", <<>>, ok)
                IN CASE answer = "abort" ->
                          /\ Return("GIT_CONFIG_CANCELLED", <<read, ask>>)
                          /\ UNCHANGED gitUser
                     [] answer # "abort" /\ ~ok ->
                          /\ Return("GIT_CONFIG_FAILED", <<read, ask, set>>)
                          /\ UNCHANGED gitUser
                     [] OTHER ->
                          /\ Goto(IF "email" \in gitUser
                                    THEN "aig.createInitialCommit"
                                    ELSE "aig.ensureGitUserEmail",
                                  <<read, ask, set>>)
                          /\ gitUser' = gitUser \cup {"name"}
  /\ UNCHANGED <<AigFrame, isRepo, tree, gitignore, commits, commitMessage>>

\* the user.email part of ensureGitUser
AigEnsureGitUserEmail ==
  /\ pc = "aig.ensureGitUserEmail"
  /\ \E answer \in {"typed", "abort"}, ok \in BOOLEAN :
       LET ask == Prompt("ensureGitUser", "Input.prompt", "email", answer)
           set == Ev("ensureGitUser", "git config user.email", <<>>, ok)
       IN CASE answer = "abort" ->
                 /\ Return("GIT_CONFIG_CANCELLED", <<ask>>)
                 /\ UNCHANGED gitUser
            [] answer # "abort" /\ ~ok ->
                 /\ Return("GIT_CONFIG_FAILED", <<ask, set>>)
                 /\ UNCHANGED gitUser
            [] OTHER ->
                 /\ Goto("aig.createInitialCommit", <<ask, set>>)
                 /\ gitUser' = gitUser \cup {"email"}
  /\ UNCHANGED <<AigFrame, isRepo, tree, gitignore, commits, commitMessage>>

\* createInitialCommit up to `git add`: the status query and the prompts for
\* the message; an aborted prompt keeps the default message. `git status`
\* succeeds in the repository just initialized.
AigCreateInitialCommit ==
  /\ pc = "aig.createInitialCommit"
  /\ LET status == EvR("createInitialCommit", "git status", <<>>,
                       IF Len(tree) > 0 THEN "changes" ELSE "")
     IN IF Len(tree) = 0
          THEN /\ Return("OK", <<status>>)
               /\ UNCHANGED commitMessage
          ELSE \E customize \in Answers, typed \in {"typed", "abort"} :
                 /\ Goto("aig.commit",
                      <<status,
                        Prompt("createInitialCommit", "Confirm.prompt",
                               "customize", customize)>>
                      \o (IF customize = "yes"
                            THEN <<Prompt("createInitialCommit", "Input.prompt",
                                          "message", typed)>>
                            ELSE <<>>))
                 /\ commitMessage' = IF customize = "yes" /\ typed = "typed"
                                       THEN "typed message"
                                       ELSE "Initial commit"
  /\ UNCHANGED <<AigFrame, isRepo, tree, gitignore, gitUser, commits>>

\* `git add .` and `git commit` of createInitialCommit and the end of
\* autoInitializeGit: a failure of either is only warned about
AigCommit ==
  /\ pc = "aig.commit"
  /\ \E addOk \in BOOLEAN, commitOk \in BOOLEAN :
       LET add == Ev("createInitialCommit", "git add", <<>>, addOk)
           commit == Ev("createInitialCommit", "git commit", <<commitMessage>>, commitOk)
           warn == Ev(entry, "logger.warn", <<"Failed to create initial commit">>, TRUE)
       IN CASE ~addOk ->
                 /\ Return("OK", <<add, warn>>)
                 /\ UNCHANGED <<tree, commits>>
            [] addOk /\ ~commitOk ->
                 /\ Return("OK", <<add, commit, warn>>)
                 /\ tree' = Stage(tree)
                 /\ UNCHANGED commits
            [] OTHER ->
                 /\ Return("OK", <<add, commit>>)
                 /\ tree' = <<>>
                 /\ commits' = commits + 1
  /\ UNCHANGED <<AigFrame, isRepo, gitignore, gitUser, commitMessage>>

\* ------------------------------------------------- auto_remote.ts
AcrFrame ==
  <<entry, PublishVars, ManifestVars, isRepo, tree, gitignore, gitUser, commits, cli,
    writes, calls, validation, config, commitMessage>>

\* hasRemote("origin"): false also when getRemotes fails
hasRemote(ok, rs) == ok /\ InSeq("origin", rs)

\* autoCreateRemote up to the probes of the hosting CLIs
AutoCreateRemote ==
  /\ pc = "call"
  /\ entry = "autoCreateRemote"
  /\ \E ok \in BOOLEAN :
       IF hasRemote(ok, remotes)
         THEN Return("REMOTE_EXISTS", <<Ev("hasRemote", "getRemotes", <<>>, ok)>>)
         ELSE Goto("acr.probe", <<Ev("hasRemote", "getRemotes", <<>>, ok)>>)
  /\ UNCHANGED <<AcrFrame, remotes, hosted, repoConfig>>

\* mutant of AcrProbeCli: without a hosting CLI nothing is displayed
AcrProbeCliSilent ==
  /\ pc = "acr.probe"
  /\ LET probes == <<Ev(entry, "isGhCliAvailable", <<>>, "gh" \in cli),
                     Ev(entry, "isGlabCliAvailable", <<>>, "glab" \in cli)>>
     IN IF cli = {}
          THEN Return("NO_CLI_TOOLS", probes)
          ELSE Goto("acr.promptRepoCreation", probes)
  /\ UNCHANGED <<AcrFrame, remotes, hosted, repoConfig>>

\* the probes of gh and glab and the test of their results
AcrProbeCli ==
  /\ pc = "acr.probe"
  /\ LET probes == <<Ev(entry, "isGhCliAvailable", <<>>, "gh" \in cli),
                     Ev(entry, "isGlabCliAvailable", <<>>, "glab" \in cli)>>
     IN IF cli = {}
          THEN Return("NO_CLI_TOOLS",
                      probes \o <<Ev(entry, "displayRemoteSetup", <<>>, TRUE)>>)
          ELSE Goto("acr.promptRepoCreation", probes)
  /\ UNCHANGED <<AcrFrame, remotes, hosted, repoConfig>>

\* promptRepoCreation and the test of its result in autoCreateRemote; the
\* platform is asked for only when both CLIs are there, and platformOptions
\* is never empty here
AcrPromptRepoCreation ==
  /\ pc = "acr.promptRepoCreation"
  /\ \E create \in Answers, sel \in {"github", "gitlab", "abort"},
        name \in {"repo", "abort"}, private \in Answers :
       LET both == cli = {"gh", "glab"}
           platform == IF both THEN sel
                       ELSE IF "gh" \in cli THEN "github" ELSE "gitlab"
           askCreate == Prompt("promptRepoCreation", "Confirm.prompt", "create", create)
           askPlatform == IF both
                            THEN <<Prompt("promptRepoCreation", "Select.prompt",
                                          "platform", sel)>>
                            ELSE <<>>
           askName == Prompt("promptRepoCreation", "Input.prompt", "name", name)
           askPrivate == Prompt("promptRepoCreation", "Confirm.prompt", "private", private)
       IN CASE create = "no" ->
                 /\ Return("REPO_CREATE_DECLINED",
                      <<askCreate, Ev(entry, "displayRemoteSetup", <<>>, TRUE)>>)
                 /\ UNCHANGED repoConfig
            [] create = "abort" ->
                 /\ Return("REPO_PROMPT_CANCELLED", <<askCreate>>)
                 /\ UNCHANGED repoConfig
            [] create = "yes" /\ platform = "abort" ->
                 /\ Return("REPO_PROMPT_CANCELLED", <<askCreate>> \o askPlatform)
                 /\ UNCHANGED repoConfig
            [] create = "yes" /\ platform # "abort" /\ name = "abort" ->
                 /\ Return("REPO_PROMPT_CANCELLED",
                      <<askCreate>> \o askPlatform \o <<askName>>)
                 /\ UNCHANGED repoConfig
            [] create = "yes" /\ platform # "abort" /\ name # "abort"
                 /\ private = "abort" ->
                 /\ Return("REPO_PROMPT_CANCELLED",
                      <<askCreate>> \o askPlatform \o <<askName, askPrivate>>)
                 /\ UNCHANGED repoConfig
            [] OTHER ->
                 /\ Goto("acr.createRepo",
                      <<askCreate>> \o askPlatform \o <<askName, askPrivate>>)
                 /\ repoConfig' = [name |-> name, isPrivate |-> private = "yes",
                                   platform |-> platform]
  /\ UNCHANGED <<AcrFrame, remotes, hosted>>

\* createGitHubRepo or createGitLabRepo and the test of its result; the CLI
\* may configure the remote origin itself, and a failed URL lookup falls
\* back to a URL made from the name
AcrCreateRepo ==
  /\ pc = "acr.createRepo"
  /\ \E ok \in BOOLEAN, auto \in BOOLEAN, urlOk \in BOOLEAN :
       LET tool == IF repoConfig.platform = "github" THEN "gh" ELSE "glab"
           create == Ev(tool, "repo create", <<repoConfig.name>>, ok)
           view == Ev(tool, "repo view", <<>>, urlOk)
       IN IF ok
            THEN /\ Goto("acr.attach", <<create, view>>)
                 /\ hosted' = hosted \cup {repoConfig.platform}
                 /\ remotes' = IF auto /\ ~InSeq("origin", remotes)
                                 THEN Append(remotes, "origin")
                                 ELSE remotes
            ELSE /\ Return(IF tool = "gh" THEN "GITHUB_CREATE_FAILED"
                           ELSE "GITLAB_CREATE_FAILED", <<create>>)
                 /\ UNCHANGED <<hosted, remotes>>
  /\ UNCHANGED <<AcrFrame, repoConfig>>

\* the second hasRemote and addRemote; `git remote add origin` fails when
\* origin exists
AcrAttach ==
  /\ pc = "acr.attach"
  /\ \E ok \in BOOLEAN, addOk \in BOOLEAN :
       LET query == Ev("hasRemote", "getRemotes", <<>>, ok)
           added == addOk /\ ~InSeq("origin", remotes)
           add == Ev(entry, "addRemote", <<"origin">>, added)
       IN IF hasRemote(ok, remotes)
            THEN /\ Return("OK", <<query>>)
                 /\ UNCHANGED remotes
            ELSE IF added
              THEN /\ Return("OK", <<query, add>>)
                   /\ remotes' = Append(remotes, "origin")
              ELSE /\ Return("GIT_REMOTE_ADD_FAILED", <<query, add>>)
                   /\ UNCHANGED remotes
  /\ UNCHANGED <<AcrFrame, hosted, repoConfig>>

\* ------------------------------------------------- auto_commit.ts
AccFrame ==
  <<entry, PublishVars, ManifestVars, isRepo, remotes, gitignore, gitUser, cli, hosted,
    writes, calls, validation, config, repoConfig>>

\* mutant of AutoCommitChanges: the prompt is shown for an empty change set
AutoCommitChangesAlwaysAsks ==
  /\ pc = "call"
  /\ entry = "autoCommitChanges"
  /\ IF ~isRepo
       THEN Return("GIT_STATUS_FAILED",
                   <<Ev("getUncommittedChanges", "git status", <<>>, FALSE)>>)
       ELSE Goto("acc.promptCommitDetails",
                 <<Ev("getUncommittedChanges", "git status", <<>>, TRUE),
                   Ev(entry, "displayChanges", <<getUncommittedChanges(tree).total>>, TRUE)>>)
  /\ UNCHANGED <<AccFrame, tree, commits, commitMessage>>

\* autoCommitChanges up to the call of promptCommitDetails; `git status`
\* fails exactly outside a repository
AutoCommitChanges ==
  /\ pc = "call"
  /\ entry = "autoCommitChanges"
  /\ IF ~isRepo
       THEN Return("GIT_STATUS_FAILED",
                   <<Ev("getUncommittedChanges", "git status", <<>>, FALSE)>>)
       ELSE IF getUncommittedChanges(tree).total = 0
         THEN Return("OK", <<Ev("getUncommittedChanges", "git status", <<>>, TRUE)>>)
         ELSE Goto("acc.promptCommitDetails",
                   <<Ev("getUncommittedChanges", "git status", <<>>, TRUE),
                     Ev(entry, "displayChanges", <<getUncommittedChanges(tree).total>>, TRUE)>>)
  /\ UNCHANGED <<AccFrame, tree, commits, commitMessage>>

\* promptCommitDetails and the tests of its result in autoCommitChanges
AccPromptCommitDetails ==
  /\ pc = "acc.promptCommitDetails"
  /\ \E confirm \in Answers, useDefault \in Answers, typed \in {"typed", "abort"} :
       LET askConfirm == Prompt("promptCommitDetails", "Confirm.prompt", "commit", confirm)
           askDefault == Prompt("promptCommitDetails", "Confirm.prompt",
                                "use message", useDefault)
           askMessage == Prompt("promptCommitDetails", "Input.prompt", "message", typed)
       IN CASE confirm = "no" ->
                 /\ Return("COMMIT_DECLINED", <<askConfirm>>)
                 /\ UNCHANGED commitMessage
            [] confirm = "abort" ->
                 /\ Return("COMMIT_PROMPT_CANCELLED", <<askConfirm>>)
                 /\ UNCHANGED commitMessage
            [] confirm = "yes" /\ useDefault = "abort" ->
                 /\ Return("COMMIT_PROMPT_CANCELLED", <<askConfirm, askDefault>>)
                 /\ UNCHANGED commitMessage
            [] confirm = "yes" /\ useDefault = "yes" ->
                 /\ Goto("acc.executeCommit", <<askConfirm, askDefault>>)
                 /\ commitMessage' = generateCommitMessage(getUncommittedChanges(tree))
            [] confirm = "yes" /\ useDefault = "no" /\ typed = "abort" ->
                 /\ Return("COMMIT_PROMPT_CANCELLED",
                      <<askConfirm, askDefault, askMessage>>)
                 /\ UNCHANGED commitMessage
            [] OTHER ->
                 /\ Goto("acc.executeCommit", <<askConfirm, askDefault, askMessage>>)
                 /\ commitMessage' = "typed message"
  /\ UNCHANGED <<AccFrame, tree, commits>>

\* executeCommit and the end of autoCommitChanges
AccExecuteCommit ==
  /\ pc = "acc.executeCommit"
  /\ \E addOk \in BOOLEAN, commitOk \in BOOLEAN :
       LET add == Ev("executeCommit", "git add", <<>>, addOk)
           commit == Ev("executeCommit", "git commit", <<commitMessage>>, commitOk)
       IN CASE ~addOk ->
                 /\ Return("GIT_ADD_FAILED", <<add>>)
                 /\ UNCHANGED <<tree, commits>>
            [] addOk /\ ~commitOk ->
                 /\ Return("GIT_COMMIT_FAILED", <<add, commit>>)
                 /\ tree' = Stage(tree)
                 /\ UNCHANGED commits
            [] OTHER ->
                 /\ Return("OK", <<add, commit>>)
                 /\ tree' = <<>>
                 /\ commits' = commits + 1
  /\ UNCHANGED <<AccFrame, commitMessage>>

\* ------------------------------------------------- jsr_validator.ts
AfjFrame ==
  <<entry, PublishVars, packageJson, jsrJson, isRepo, remotes, tree, gitignore, gitUser, commits,
    cli, hosted, calls, validation, repoConfig, commitMessage>>

\* autoFixJsrConfig up to its first prompt
AutoFixJsrConfig ==
  /\ pc = "call"
  /\ entry = "autoFixJsrConfig"
  /\ IF validation.isValid
       THEN Return("OK", <<Ev(entry, "logger.success", <<"already valid">>, TRUE)>>)
       ELSE Goto("afj.confirm", <<Ev(entry, "logger.warn", validation.issues, TRUE)>>)
  /\ UNCHANGED <<AfjFrame, config, writes, denoJson>>

\* the Confirm.prompt of autoFixJsrConfig is outside any try: an aborted
\* prompt makes autoFixJsrConfig throw
AfjConfirmFix ==
  /\ pc = "afj.confirm"
  /\ \E answer \in Answers :
       LET ask == Prompt(entry, "Confirm.prompt", "fix", answer)
       IN CASE answer = "yes" ->
                 /\ Goto(IF validation.hasValidName THEN "afj.fields" ELSE "afj.name",
                         <<ask>>)
                 /\ config' = validation.currentConfig
            [] answer = "no" ->
                 /\ Return("AUTO_FIX_DECLINED", <<ask>>)
                 /\ UNCHANGED config
            [] OTHER ->
                 /\ Return("THROWN", <<ask>>)
                 /\ UNCHANGED config
  /\ UNCHANGED <<AfjFrame, writes, denoJson>>

\* mutant of AfjFixName: the new name is saved as soon as it is known
AfjFixNameSavesAtOnce ==
  /\ pc = "afj.name"
  /\ \E scope \in {"me", "abort"}, pkg \in {"pkg", "tool", "abort"} :
       LET askScope == Prompt("promptJsrScope", "Input.prompt", "scope", scope)
           askName == Prompt("promptPackageName", "Input.prompt", "package", pkg)
           named == [config EXCEPT !.name = "@" \o scope \o "/" \o pkg]
       IN CASE scope = "abort" ->
                 /\ Return("SCOPE_PROMPT_CANCELLED", <<askScope>>)
                 /\ UNCHANGED <<config, writes, denoJson>>
            [] scope # "abort" /\ pkg = "abort" ->
                 /\ Return("NAME_PROMPT_CANCELLED", <<askScope, askName>>)
                 /\ UNCHANGED <<config, writes, denoJson>>
            [] OTHER ->
                 /\ Goto("afj.fields", <<askScope, askName>>)
                 /\ config' = named
                 /\ writes' = Append(writes, named)
                 /\ denoJson' = [file |-> "ok", config |-> named]
  /\ UNCHANGED AfjFrame

\* promptJsrScope, promptPackageName and the new name
AfjFixName ==
  /\ pc = "afj.name"
  /\ \E scope \in {"me", "abort"}, pkg \in {"pkg", "tool", "abort"} :
       LET askScope == Prompt("promptJsrScope", "Input.prompt", "scope", scope)
           askName == Prompt("promptPackageName", "Input.prompt", "package", pkg)
       IN CASE scope = "abort" ->
                 /\ Return("SCOPE_PROMPT_CANCELLED", <<askScope>>)
                 /\ UNCHANGED config
            [] scope # "abort" /\ pkg = "abort" ->
                 /\ Return("NAME_PROMPT_CANCELLED", <<askScope, askName>>)
                 /\ UNCHANGED config
            [] OTHER ->
                 /\ Goto("afj.fields", <<askScope, askName>>)
                 /\ config' = [config EXCEPT !.name = "@" \o scope \o "/" \o pkg]
  /\ UNCHANGED <<AfjFrame, writes, denoJson>>

\* mutant of AfjFixFields: the version is reset whatever it was
AfjFixFieldsResetsVersion ==
  /\ pc = "afj.fields"
  /\ \E foundMain \in {"mod.ts", "main.ts", ""}, addLicense \in Answers :
       LET version == "0.1.0"
           exports == IF validation.hasExports THEN config.exports
                      ELSE IF foundMain # "" THEN "./" \o foundMain
                      ELSE "./mod.ts"
           probe == IF validation.hasExports THEN <<>>
                    ELSE <<EvR(entry, "exists", <<"main file">>, foundMain)>>
           ask == IF validation.hasLicense THEN <<>>
                  ELSE <<Prompt(entry, "Confirm.prompt", "license", addLicense)>>
       IN IF ~validation.hasLicense /\ addLicense = "abort"
            THEN /\ Return("THROWN", probe \o ask)
                 /\ UNCHANGED config
            ELSE /\ Goto("afj.write", probe \o ask)
                 /\ config' =
                      [config EXCEPT
                         !.version = version,
                         !.exports = exports,
                         !.license = IF ~validation.hasLicense /\ addLicense = "yes"
                                       THEN "MIT" ELSE config.license]
  /\ UNCHANGED <<AfjFrame, writes, denoJson>>

\* the version, exports and license parts; the license prompt is outside
\* any try as well
AfjFixFields ==
  /\ pc = "afj.fields"
  /\ \E foundMain \in {"mod.ts", "main.ts", ""}, addLicense \in Answers :
       LET version == IF validation.hasValidVersion THEN config.version ELSE "0.1.0"
           exports == IF validation.hasExports THEN config.exports
                      ELSE IF foundMain # "" THEN "./" \o foundMain
                      ELSE "./mod.ts"
           probe == IF validation.hasExports THEN <<>>
                    ELSE <<EvR(entry, "exists", <<"main file">>, foundMain)>>
           ask == IF validation.hasLicense THEN <<>>
                  ELSE <<Prompt(entry, "Confirm.prompt", "license", addLicense)>>
       IN IF ~validation.hasLicense /\ addLicense = "abort"
            THEN /\ Return("THROWN", probe \o ask)
                 /\ UNCHANGED config
            ELSE /\ Goto("afj.write", probe \o ask)
                 /\ config' =
                      [config EXCEPT
                         !.version = version,
                         !.exports = exports,
                         !.license = IF ~validation.hasLicense /\ addLicense = "yes"
                                       THEN "MIT" ELSE config.license]
  /\ UNCHANGED <<AfjFrame, writes, denoJson>>

\* writeDenoConfig and the end of autoFixJsrConfig
AfjWriteDenoConfig ==
  /\ pc = "afj.write"
  /\ \E ok \in BOOLEAN :
       IF ok
         THEN /\ Return("OK", <<Ev("writeDenoConfig", "Deno.writeTextFile",
                                   <<"deno.json">>, TRUE)>>)
              /\ writes' = Append(writes, config)
              /\ denoJson' = [file |-> "ok", config |-> config]
         ELSE /\ Return("DENO_JSON_WRITE_ERROR",
                        <<Ev("writeDenoConfig", "Deno.writeTextFile",
                             <<"deno.json">>, FALSE)>>)
              /\ UNCHANGED <<writes, denoJson>>
  /\ UNCHANGED <<AfjFrame, config>>

\* ------------------------------------------------- the caller
\* the validation handed to autoFixJsrConfig is the one of the manifest on
\* disk: the last config written, if any
Revalidated ==
  IF writes = <<>> THEN validation
  ELSE validateJsrConfig([file |-> "ok", config |-> writes[Len(writes)]])

\* the sub-flow is called again after it has returned success
CallAgain ==
  /\ pc = "returned"
  /\ entry \in Flows
  /\ result = "OK"
  /\ calls < MaxCalls
  /\ calls' = calls + 1
  /\ pc' = "call"
  /\ result' = ""
  /\ validation' = Revalidated
  /\ config' = NoConfig
  /\ repoConfig' = NoRepoConfig
  /\ commitMessage' = ""
  /\ trace' = Append(trace, Ev("caller", "call", <<entry>>, TRUE))
  /\ UNCHANGED <<entry, PublishVars, RepoVars, EnvVars, ManifestVars>>

\* the working trees of a directory that is no repository yet: every file
\* is untracked
UntrackedTrees == {t \in Trees : \A i \in DOMAIN t : t[i].xy = <<"?", "?">>}

\* a sub-flow is about to be called; only what the sub-flow reads varies
InitFlows ==
  /\ entry \in Flows
  /\ pc = "call"
  /\ calls = 1
  /\ trace = <<>>
  /\ result = ""
  /\ isRepo \in (IF entry \in {"autoInitializeGit", "autoCommitChanges"}
                   THEN BOOLEAN ELSE {TRUE})
  /\ tree \in (IF entry \in {"autoInitializeGit", "autoCommitChanges"}
                 THEN (IF isRepo THEN Trees ELSE UntrackedTrees)
                 ELSE {<<>>})
  /\ remotes \in (IF entry = "autoCreateRemote" THEN RemoteConfigs ELSE {<<>>})
  /\ cli \in (IF entry = "autoCreateRemote" THEN SUBSET {"gh", "glab"} ELSE {{}})
  /\ gitignore \in (IF entry = "autoInitializeGit" THEN BOOLEAN ELSE {TRUE})
  /\ gitUser \in (IF entry = "autoInitializeGit"
                    THEN SUBSET {"name", "email"} ELSE {{"name", "email"}})
  /\ denoJson \in (IF entry = "autoFixJsrConfig" THEN Manifests
                     ELSE {[file |-> "missing", config |-> NoConfig]})
  /\ validation = validateJsrConfig(denoJson)
  /\ packageJson = "absent"
  /\ jsrJson = "absent"
  /\ commits = 0
  /\ hosted = {}
  /\ writes = <<>>
  /\ config = NoConfig
  /\ repoConfig = NoRepoConfig
  /\ commitMessage = ""
  /\ tags = {}
  /\ opts = [branch |-> "", tag |-> "", createTag |-> "", remote |-> "",
             skipRegistries |-> FALSE, force |-> FALSE, dryRun |-> FALSE,
             registries |-> <<>>]
  /\ remote = ""
  /\ gitRef = ""
  /\ branchList = <<>>
  /\ tagList = <<>>
  /\ newTag = <<>>
  /\ registries = <<>>
  /\ picked = <<>>
  /\ selectedRegistries = <<>>
  /\ idx = 0
  /\ exitCode = -1

NextFlows ==
  \/ AutoInitializeGit
  \/ AigPromptInitGit
  \/ AigInitGit
  \/ AigCreateGitignoreIfNeeded
  \/ AigEnsureGitUserName
  \/ AigEnsureGitUserEmail
  \/ AigCreateInitialCommit
  \/ AigCommit
  \/ AutoCreateRemote
  \/ AcrProbeCli
  \/ AcrPromptRepoCreation
  \/ AcrCreateRepo
  \/ AcrAttach
  \/ AutoCommitChanges
  \/ AccPromptCommitDetails
  \/ AccExecuteCommit
  \/ AutoFixJsrConfig
  \/ AfjConfirmFix
  \/ AfjFixName
  \/ AfjFixFields
  \/ AfjWriteDenoConfig
  \/ CallAgain

SpecFlows == InitFlows /\ [][NextFlows]_vars

\* ============================================== the probes of the project
\* The check command of cli.ts and validateJsrConfig called directly, in a
\* project directory whose manifests are package.json, deno.json and
\* jsr.json.
Probes == {"check", "validateJsrConfig"}

\* what detectJsrPackage sees of a manifest: JSON.parse, then !config.name
\* and !config.version
ManifestKind(m) ==
  IF m.file = "missing" THEN "absent"
  ELSE IF m.file = "unparseable" THEN "unparseable"
  ELSE IF m.config.name = "" THEN "noName"
  ELSE IF m.config.version = "" THEN "noVersion"
  ELSE "valid"

\* detectJsrPackage: configPath is deno.json if it exists, else jsr.json if
\* it exists, else null
configPath(deno, jsr) ==
  IF deno.file # "missing" THEN "deno.json"
  ELSE IF jsr # "absent" THEN "jsr.json"
  ELSE ""

\* the manifest detectJsrPackage reads
JsrManifestRead(deno, jsr) ==
  IF configPath(deno, jsr) = "deno.json" THEN ManifestKind(deno) ELSE jsr

ProbeFrame ==
  <<entry, opts, tags, remote, gitRef, branchList, tagList, newTag, picked,
    selectedRegistries, idx, result, RepoVars, EnvVars, ManifestVars, calls,
    config, repoConfig, commitMessage>>

\* check: the Git section
CheckGit ==
  /\ pc = "call"
  /\ entry = "check"
  /\ \E installed \in BOOLEAN :
       /\ trace' = trace \o
            (IF installed
               THEN <<Ev("check", "isGitInstalled", <<>>, TRUE),
                      EvR("check", "getGitStatus", <<>>, isDirty(isRepo, tree)),
                      Ev("check", IF isRepo THEN "logger.info" ELSE "logger.warn",
                         <<IF isRepo THEN "Working directory"
                           ELSE "Not a Git repository">>, TRUE)>>
               ELSE <<Ev("check", "isGitInstalled", <<>>, FALSE),
                      Ev("check", "logger.error", <<"Git is not installed">>, TRUE)>>)
       /\ pc' = IF installed THEN "check.remote" ELSE "check.remoteNoGit"
  /\ UNCHANGED <<ProbeFrame, registries, validation, exitCode>>

\* mutant of CheckRemote: the push of the authentication check is a real one
CheckRemoteRealPush ==
  /\ pc \in {"check.remote", "check.remoteNoGit"}
  /\ \E ok \in BOOLEAN, canPush \in BOOLEAN, authMethod \in AuthMethods :
       /\ ok => (pc = "check.remote" /\ isRepo)
       /\ canPush => InSeq("origin", remotes)
       /\ trace' = trace \o
            (IF ok /\ remotes # <<>>
               THEN <<Ev("getPrimaryRemote", "getRemotes", <<>>, TRUE),
                      Ev("check", "logger.success",
                         <<"Remote", PrimaryRemote(remotes)>>, TRUE),
                      Ev("verifyAuth", "push", <<"origin">>, canPush)>>
                    \o (IF canPush
                          THEN <<Ev("check", "logger.success",
                                    <<"Authentication verified">>, TRUE)>>
                          ELSE <<Ev("verifyAuth", "displayAuthSetup",
                                    <<authMethod>>, TRUE),
                                 Ev("check", "logger.warn",
                                    <<"Authentication check failed">>, TRUE)>>)
               ELSE <<Ev("getPrimaryRemote", "getRemotes", <<>>, ok),
                      Ev("check", "logger.warn",
                         <<"No remote repository configured">>, TRUE)>>)
       /\ pc' = "check.registries"
  /\ UNCHANGED <<ProbeFrame, registries, validation, exitCode>>

\* check: the Remote Repository and Authentication sections; verifyAuth is
\* called with the remote name "origin" whatever the primary remote is, and
\* `git remote -v` fails without git or outside a repository
CheckRemote ==
  /\ pc \in {"check.remote", "check.remoteNoGit"}
  /\ \E ok \in BOOLEAN, canPush \in BOOLEAN, authMethod \in AuthMethods :
       /\ ok => (pc = "check.remote" /\ isRepo)
       /\ canPush => InSeq("origin", remotes)
       /\ trace' = trace \o
            (IF ok /\ remotes # <<>>
               THEN <<Ev("getPrimaryRemote", "getRemotes", <<>>, TRUE),
                      Ev("check", "logger.success",
                         <<"Remote", PrimaryRemote(remotes)>>, TRUE),
                      Ev("verifyAuth", "canPush", <<"origin">>, canPush)>>
                    \o (IF canPush
                          THEN <<Ev("check", "logger.success",
                                    <<"Authentication verified">>, TRUE)>>
                          ELSE <<Ev("verifyAuth", "displayAuthSetup",
                                    <<authMethod>>, TRUE),
                                 Ev("check", "logger.warn",
                                    <<"Authentication check failed">>, TRUE)>>)
               ELSE <<Ev("getPrimaryRemote", "getRemotes", <<>>, ok),
                      Ev("check", "logger.warn",
                         <<"No remote repository configured">>, TRUE)>>)
       /\ pc' = "check.registries"
  /\ UNCHANGED <<ProbeFrame, registries, validation, exitCode>>

\* check: the Package Registries section and the end of the command
CheckRegistries ==
  /\ pc = "check.registries"
  /\ registries' = detectRegistries(packageJson, JsrManifestRead(denoJson, jsrJson))
  /\ trace' = trace \o
       <<Ev("check", "detectRegistries", <<>>, TRUE),
         Ev("check", IF Len(registries') > 0 THEN "logger.success" ELSE "logger.info",
            registries', TRUE)>>
  /\ pc' = "exited"
  /\ exitCode' = 0
  /\ UNCHANGED <<ProbeFrame, validation>>

\* validateJsrConfig(path) called on the project directory
ValidateJsrConfig ==
  /\ pc = "call"
  /\ entry = "validateJsrConfig"
  /\ validation' = validateJsrConfig(denoJson)
  /\ trace' = Append(trace, Ev(entry, "readDenoConfig", <<>>, denoJson.file = "ok"))
  /\ pc' = "returned"
  /\ UNCHANGED <<ProbeFrame, registries, exitCode>>

\* the deno.json manifests that differ in what detectJsrPackage reads
DetectedManifests ==
  {m \in Manifests : m.config.license = "" /\ m.config.description = ""}

\* a probe is about to run; only what the probe reads varies
InitProbes ==
  /\ entry \in Probes
  /\ pc = "call"
  /\ trace = <<>>
  /\ result = ""
  /\ exitCode = -1
  /\ isRepo \in (IF entry = "check" THEN BOOLEAN ELSE {TRUE})
  /\ remotes \in (IF entry = "check" /\ isRepo THEN RemoteConfigs ELSE {<<>>})
  /\ tree \in (IF entry = "check" /\ isRepo
                 THEN {<<>>, <<[xy |-> <<" ", "M">>, file |-> FilePool[1]]>>}
                 ELSE {<<>>})
  /\ packageJson \in (IF entry = "check" THEN NpmManifests ELSE {"absent"})
  /\ denoJson \in (IF entry = "check" THEN DetectedManifests ELSE Manifests)
  /\ jsrJson \in (IF entry = "check" THEN JsrManifests ELSE {"absent"})
  /\ validation = validateJsrConfig([file |-> "missing", config |-> NoConfig])
  /\ registries = <<>>
  /\ tags = {}
  /\ gitignore = TRUE
  /\ gitUser = {"name", "email"}
  /\ commits = 0
  /\ cli = {}
  /\ hosted = {}
  /\ writes = <<>>
  /\ calls = 1
  /\ config = NoConfig
  /\ repoConfig = NoRepoConfig
  /\ commitMessage = ""
  /\ opts = [branch |-> "", tag |-> "", createTag |-> "", remote |-> "",
             skipRegistries |-> FALSE, force |-> FALSE, dryRun |-> FALSE,
             registries |-> <<>>]
  /\ remote = ""
  /\ gitRef = ""
  /\ branchList = <<>>
  /\ tagList = <<>>
  /\ newTag = <<>>
  /\ picked = <<>>
  /\ selectedRegistries = <<>>
  /\ idx = 0

NextProbes ==
  \/ CheckGit
  \/ CheckRemote
  \/ CheckRegistries
  \/ ValidateJsrConfig

SpecProbes == InitProbes /\ [][NextProbes]_vars

\* ================================================================== claims
Called(op) == \E i \in DOMAIN trace : trace[i].op = op
Succeeded(op) == \E i \in DOMAIN trace : trace[i].op = op /\ trace[i].ok
Failed(op) == \E i \in DOMAIN trace : trace[i].op = op /\ ~trace[i].ok
CallsBy(t, by) == SelectSeq(t, LAMBDA e : e.by = by)
CallsOf(t, op) == SelectSeq(t, LAMBDA e : e.op = op)
Finished == pc \in {"returned", "exited"}
Logged(t, level, args) == \E i \in DOMAIN t : t[i] = Ev("publish", level, args, TRUE)
Declined ==
  \E i \in DOMAIN trace :
    trace[i].op = "promptConfirmPublish" /\ trace[i].ok /\ trace[i].ret = "no"

\* C1: in a run with options.dryRun set no push and no publishToRegistry is
\* ever invoked, and the step taken from the execute phase returns success
\* with the resolved ref, the remote and the selected registries logged.
C1_DryRunNeverPushesOrPublishes ==
  /\ [](opts.dryRun => ~Called("push") /\ ~Called("publishToRegistry"))
  /\ [][(opts.dryRun /\ pc = "execute") =>
          /\ pc' = "returned"
          /\ result' = "OK"
          /\ gitRef # "" /\ remote # ""
          /\ Logged(trace', "logger.info", <<"Would push", gitRef, remote>>)
          /\ selectedRegistries # <<>> =>
               Logged(trace', "logger.info",
                      <<"Would publish to">>
                        \o RegistryNames(selectedRegistries))]_vars

C1_Witness ==
  /\ opts.dryRun
  /\ pc = "returned"
  /\ result = "OK"
  /\ selectedRegistries = <<"npm", "jsr">>
  /\ Logged(trace, "logger.info", <<"Would publish to", "npm", "JSR">>)

\* C2 (as claimed): a run with options.dryRun set performs no mutating
\* operation on the repository: no tag is created and no repository is
\* initialized.
C2_DryRunMutatesNothing ==
  opts.dryRun =>
    ~\E i \in DOMAIN trace :
       trace[i].op \in {"createTag", "initGitRepository"} /\ trace[i].ok

\* C3: once the push of the execute phase has failed, publish has returned
\* GIT_PUSH_FAILED and no registry publish has been or will be attempted.
C3_PushFailureIsFatal ==
  Failed("push") =>
    /\ Finished
    /\ result = "GIT_PUSH_FAILED"
    /\ ~Called("publishToRegistry")
    /\ pc = "exited" => exitCode = 1

C3_Witness ==
  /\ Failed("push")
  /\ Len(selectedRegistries) = 2
  /\ pc = "returned"

\* C4: after a successful push the registry publishes attempted so far are
\* exactly the first idx-1 registries of the final selection, in selection
\* order and once each, whatever their outcomes, and publish returns only
\* when all of them have been attempted.
C4_AllSelectedRegistriesAttemptedInOrder ==
  Succeeded("push") =>
    /\ idx \in 1..(Len(selectedRegistries) + 1)
    /\ Len(CallsOf(trace, "publishToRegistry")) = idx - 1
    /\ \A i \in 1..(idx - 1) :
         CallsOf(trace, "publishToRegistry")[i].args = <<selectedRegistries[i]>>
    /\ Finished => idx = Len(selectedRegistries) + 1

C4_Witness ==
  /\ Succeeded("push")
  /\ pc = "returned"
  /\ selectedRegistries = <<"npm", "jsr">>
  /\ Len(CallsOf(trace, "publishToRegistry")) = 2
  /\ ~CallsOf(trace, "publishToRegistry")[1].ok
  /\ CallsOf(trace, "publishToRegistry")[2].args = <<"jsr">>

\* C5: once the push has succeeded, a finished run of publish has returned
\* success whatever the outcomes of the registry publishes, and the default
\* command exits with code 0.
C5_RegistryFailuresDoNotChangeOutcome ==
  (Succeeded("push") /\ Finished) =>
    /\ result = "OK"
    /\ pc = "exited" => exitCode = 0

C5_Witness ==
  /\ pc = "exited"
  /\ exitCode = 0
  /\ \E i, j \in DOMAIN trace :
       /\ i < j
       /\ trace[i].op = "publishToRegistry" /\ ~trace[i].ok
       /\ trace[j].op = "publishToRegistry" /\ trace[j].ok

\* C6: when the user answers no at the final confirmation (dry-run not
\* set), publish has returned success and neither a push nor a registry
\* publish has been or will be invoked.
C6_DeclinedConfirmationIsCleanSuccess ==
  Declined =>
    /\ ~opts.dryRun
    /\ Finished
    /\ result = "OK"
    /\ ~Called("push")
    /\ ~Called("publishToRegistry")
    /\ pc = "exited" => exitCode = 0

C6_Witness ==
  /\ Declined
  /\ pc = "exited"
  /\ selectedRegistries # <<>>

\* C7 (as claimed): a run that ends because the user declined the final
\* confirmation has created no new tag.
C7_DeclinedRunCreatesNoTag ==
  Declined => ~Succeeded("createTag")

\* C8: the default command called with more than one of branch, tag and
\* createTag set exits with code 1 without starting publish: nothing but
\* the error message of the command is ever output, no collaborator is
\* called and publish returns nothing.
C8_MutuallyExclusiveRefOptionsRejected ==
  (entry = "cli"
     /\ Cardinality({f \in {"branch", "tag", "createTag"} : opts[f] # ""}) > 1) =>
    /\ pc \in {"cli", "exited"}
    /\ pc = "exited" => exitCode = 1
    /\ result = ""
    /\ \A i \in DOMAIN trace : trace[i].by = "cli" /\ trace[i].op = "logger.error"

C8_Witness ==
  /\ entry = "cli"
  /\ opts.branch # "" /\ opts.createTag # ""
  /\ pc = "exited"
  /\ exitCode = 1

\* C9: the publish target is resolved by the priority branch, tag,
\* createTag, interactive; an explicit branch or tag is returned verbatim
\* and the resolver then makes no call at all (no prompt, no git command);
\* an explicit createTag name is created by one createTag call and used;
\* with none of them the resolver starts with the publish-type prompt.
C9_RefResolutionPriority ==
  /\ opts.branch # "" =>
       /\ CallsBy(trace, "determineGitRef") = <<>>
       /\ gitRef \in {"", opts.branch}
  /\ (opts.branch = "" /\ opts.tag # "") =>
       /\ CallsBy(trace, "determineGitRef") = <<>>
       /\ gitRef \in {"", opts.tag}
  /\ (opts.branch = "" /\ opts.tag = "" /\ opts.createTag # "") =>
       /\ gitRef \in {"", opts.createTag}
       /\ Len(CallsBy(trace, "determineGitRef")) <= 1
       /\ \A i \in DOMAIN CallsBy(trace, "determineGitRef") :
            /\ CallsBy(trace, "determineGitRef")[i].op = "createTag"
            /\ CallsBy(trace, "determineGitRef")[i].args = <<opts.createTag, "">>
       /\ gitRef # "" => (Succeeded("createTag") /\ gitRef \in tags)
  /\ (opts.branch = "" /\ opts.tag = "" /\ opts.createTag = "") =>
       /\ CallsBy(trace, "determineGitRef") # <<>> =>
            CallsBy(trace, "determineGitRef")[1].op = "promptPublishType"
       /\ gitRef # "" => CallsBy(trace, "determineGitRef") # <<>>

C9_Witness ==
  /\ opts.branch # "" /\ opts.tag # "" /\ opts.createTag # ""
  /\ gitRef = opts.branch
  /\ pc = "detectRegistries"

\* C10: once the push-permission probe has failed, publish has returned
\* AUTH_FAILED right after displaying the setup instructions, and no ref
\* resolution, tag creation, registry detection or selection, confirmation,
\* push or registry publish has happened or will happen.
C10_AuthFailureIsFatal ==
  Failed("canPush") =>
    /\ Finished
    /\ result = "AUTH_FAILED"
    /\ CallsBy(trace, "verifyAuth")[Len(CallsBy(trace, "verifyAuth"))].op
         = "displayAuthSetup"
    /\ CallsBy(trace, "determineGitRef") = <<>>
    /\ gitRef = ""
    /\ ~\E i \in DOMAIN trace :
         trace[i].op \in {"createTag", "detectRegistries", "Confirm.prompt",
                          "promptConfirmPublish", "push", "publishToRegistry"}
    /\ pc = "exited" => exitCode = 1

C10_Witness ==
  /\ Failed("canPush")
  /\ Called("displayAuthSetup")
  /\ pc = "exited"
  /\ exitCode = 1

\* C11 (as claimed): when publish finds that no remote is configured it
\* invokes autoCreateRemote.
C11_NoRemoteInvokesAutoCreateRemote ==
  (Succeeded("getRemotes") /\ remotes = <<>>) => Called("autoCreateRemote")

\* C12 (as claimed): when the status query of publish reports a dirty
\* working tree, autoCommitChanges has been invoked by the time the publish
\* target is resolved.
C12_DirtyTreeInvokesAutoCommit ==
  ( /\ \E i \in DOMAIN trace :
         trace[i].op = "getGitStatus" /\ trace[i].ret = "dirty"
    /\ gitRef # "" )
    => Called("autoCommitChanges")

\* C13 (as claimed): when the confirm phase is reached with JSR in the
\* working selection, publish has validated the JSR manifest.
C13_JsrManifestValidatedBeforeConfirm ==
  (pc = "confirm" /\ InSeq("jsr", selectedRegistries))
    => Called("validateJsrConfig")

\* C14 (as claimed): when the confirm phase is reached with JSR in the
\* working selection, publish has checked for the JSR token, and no JSR
\* publish is attempted without that check.
C14_JsrTokenCheckedBeforeConfirm ==
  /\ (pc = "confirm" /\ InSeq("jsr", selectedRegistries))
       => (Called("verifyJsrAuth") \/ Called("hasJsrToken"))
  /\ (\E i \in DOMAIN trace :
        trace[i].op = "publishToRegistry" /\ trace[i].args = <<"jsr">>)
       => (Called("verifyJsrAuth") \/ Called("hasJsrToken"))

PromptOps ==
  {"promptInitGit", "promptPublishType", "promptSelectBranch",
   "promptSelectTag", "promptCreateTag", "Confirm.prompt",
   "promptConfirmPublish"}
Aborted(t) == \E i \in DOMAIN t : t[i].op \in PromptOps /\ ~t[i].ok

\* C15 (as claimed): once a prompt of publish has been aborted the run has
\* ended in a failure, never in success, and the default command exits
\* with code 1.
C15_AbortedPromptIsHardFailure ==
  Aborted(trace) =>
    /\ Finished
    /\ result # "OK"
    /\ pc = "exited" => exitCode = 1

\* C16: once git is found not to be installed, publish has returned
\* GIT_NOT_INSTALLED, the probe is the only call publish has made (no
\* prompt, status query, remote lookup, auth probe, push or publish), and
\* the default command exits with code 1.
C16_GitNotInstalledIsFatal ==
  Failed("isGitInstalled") =>
    /\ Finished
    /\ result = "GIT_NOT_INSTALLED"
    /\ \A i \in DOMAIN trace :
         trace[i].by = "cli" \/ trace[i].op = "isGitInstalled"
    /\ pc = "exited" => exitCode = 1

C16_Witness ==
  /\ Failed("isGitInstalled")
  /\ pc = "exited"
  /\ exitCode = 1

LaterPhaseOps ==
  {"getRemotes", "canPush", "createTag", "promptPublishType", "getBranches",
   "getTags", "detectRegistries", "promptConfirmPublish", "push",
   "publishToRegistry"}
InitDeclined ==
  \E i \in DOMAIN trace :
    trace[i].op = "promptInitGit" /\ trace[i].ok /\ trace[i].ret = "no"

\* C17: in a directory that is no repository publish asks whether to
\* initialize one; after a declined prompt or a failed initialization
\* publish has returned a failure and no call of a later phase has been
\* made; after a successful initialization the workflow is at the remote
\* check or past it.
C17_NotARepositoryPromptsForInit ==
  /\ (~isRepo /\ Called("getGitStatus"))
       => (pc = "promptInitGit" \/ Called("promptInitGit"))
  /\ InitDeclined =>
       /\ Finished
       /\ result = "NOT_GIT_REPO"
       /\ Ops(trace) \cap LaterPhaseOps = {}
  /\ Failed("initGitRepository") =>
       /\ Finished
       /\ result = "GIT_INIT_FAILED"
       /\ ~isRepo
       /\ Ops(trace) \cap LaterPhaseOps = {}
  /\ (InitDeclined \/ Failed("initGitRepository")) =>
       (pc = "exited" => exitCode = 1)
  /\ Succeeded("initGitRepository") =>
       /\ isRepo
       /\ pc = "getPrimaryRemote" \/ Called("getRemotes")

C17_Witness ==
  /\ Failed("initGitRepository")
  /\ \E i \in DOMAIN trace :
       trace[i].op = "promptInitGit" /\ trace[i].ret = "yes"
  /\ pc = "exited"

PromptKinds == {"Confirm.prompt", "Input.prompt", "Select.prompt"}
MutatingOps ==
  {"git init", "git add", "git commit", "git config user.name",
   "git config user.email", "Deno.writeTextFile", "repo create", "addRemote"}

\* C18 (as claimed): when the remote query of autoCreateRemote succeeds and
\* finds origin, autoCreateRemote has returned success, it has made no other
\* call and no repository has been created.
C18_AutoCreateRemoteWithOriginSucceeds ==
  ( /\ entry = "autoCreateRemote"
    /\ Len(trace) = 1
    /\ trace[1].op = "getRemotes" /\ trace[1].ok
    /\ InSeq("origin", remotes) )
    => /\ pc = "returned"
       /\ result = "OK"
       /\ hosted = {}

\* the sub-flow about to be called has nothing to do
NotNeeded ==
  \/ entry = "autoInitializeGit" /\ isRepo
  \/ entry = "autoCommitChanges" /\ isRepo /\ tree = <<>>
  \/ entry = "autoFixJsrConfig" /\ validation.isValid

DeclineCode ==
  [autoInitializeGit |-> "GIT_INIT_DECLINED",
   autoCreateRemote |-> "REPO_CREATE_DECLINED",
   autoCommitChanges |-> "COMMIT_DECLINED",
   autoFixJsrConfig |-> "AUTO_FIX_DECLINED"]
DeclinePrompts == {<<"initialize">>, <<"create">>, <<"commit">>, <<"fix">>}
SaidNo(t) ==
  \E i \in DOMAIN t :
    /\ t[i].op = "Confirm.prompt" /\ t[i].args \in DeclinePrompts
    /\ t[i].ok /\ t[i].ret = "no"

\* the calls made by the running (or last) call of the sub-flow
CurrentCall(t) ==
  LET marks == {i \in DOMAIN t : t[i].op = "call"}
      last == IF marks = {} THEN 0
              ELSE CHOOSE i \in marks : \A j \in marks : j <= i
  IN SubSeq(t, last + 1, Len(t))

\* C20 (as claimed): a sub-flow whose opening question is answered no has
\* returned its decline code; a sub-flow returns a decline code only after
\* such an answer, and then it has run no mutating operation.
C20_DeclineCodeOnlyOnExplicitDecline ==
  entry \in Flows =>
    /\ SaidNo(CurrentCall(trace)) =>
         (pc = "returned" /\ result = DeclineCode[entry])
    /\ result \in {DeclineCode[f] : f \in Flows} =>
         /\ result = DeclineCode[entry]
         /\ SaidNo(CurrentCall(trace))
         /\ Ops(CurrentCall(trace)) \cap MutatingOps = {}

\* C21: whatever the manifest (missing, unparseable, any combination of
\* fields), the result of validateJsrConfig has isValid equal to
\* hasValidName and hasValidVersion and hasExports, and the same manifest
\* with any other license, or none, has the same isValid.
Validated == entry = "validateJsrConfig" /\ pc = "returned"
C21_IsValidIsConjunctionOfRequiredFlags ==
  Validated =>
    /\ validation.isValid =
         (validation.hasValidName /\ validation.hasValidVersion
            /\ validation.hasExports)
    /\ \A l \in {"", "ISC", "MIT"} :
         validateJsrConfig([denoJson EXCEPT !.config.license = l]).isValid
           = validation.isValid
C21_Witness ==
  Validated /\ validation.isValid /\ ~validation.hasLicense

\* C22 (as claimed): every result of validateJsrConfig with hasLicense
\* false has the license recommendation among its suggestions, also when
\* the manifest file is missing.
LicenseSuggestion == "Consider adding 'license' field"
C22_AbsentLicenseIsAlwaysSuggested ==
  (Validated /\ ~validation.hasLicense) =>
    InSeq(LicenseSuggestion, validation.suggestions)

\* C23: after an accepted fix has written deno.json, every field whose
\* validity flag was true is as it was before (name, version, exports), the
\* license is as it was unless it was absent and the user asked for one, the
\* description is as it was, and validating the written manifest again
\* reports hasExports; in particular a manifest whose only defect was a
\* missing exports keeps its name and its version.
LicenseAccepted ==
  \E i \in DOMAIN trace :
    /\ trace[i].op = "Confirm.prompt"
    /\ trace[i].args = <<"license">>
    /\ trace[i].ret = "yes"
FixWritten ==
  entry = "autoFixJsrConfig" /\ calls = 1 /\ pc = "returned" /\ writes # <<>>
C23_FixChangesOnlyInvalidFields ==
  /\ FixWritten =>
       LET old == validation.currentConfig
           new == writes[Len(writes)]
           again == validateJsrConfig(denoJson)
       IN /\ denoJson = [file |-> "ok", config |-> new]
          /\ validation.hasValidName => new.name = old.name
          /\ validation.hasValidVersion => new.version = old.version
          /\ validation.hasExports => new.exports = old.exports
          /\ new.license # old.license =>
               (~validation.hasLicense /\ LicenseAccepted /\ new.license = "MIT")
          /\ new.description = old.description
          /\ again.hasExports
          /\ again.currentConfig = new
  /\ (entry = "autoFixJsrConfig" /\ calls > 1 /\ writes # <<>>) =>
       (validation.hasExports /\ validation.currentConfig = writes[Len(writes)])
C23_Witness ==
  /\ FixWritten
  /\ validation.hasValidName
  /\ validation.hasValidVersion
  /\ ~validation.hasExports
  /\ validation.currentConfig.description # ""
  /\ writes[1].exports # ""

\* C24: the registries the check command detects hold npm exactly when
\* package.json exists, parses, has a name and a version and is not private;
\* they hold jsr exactly when the first existing file of deno.json and
\* jsr.json parses and has a name and a version; npm comes first, no
\* registry is listed twice, and neither answer depends on the other file.
Detected == entry = "check" /\ pc = "exited"
NpmFit == packageJson = "valid"
JsrFit ==
  IF denoJson.file # "missing"
    THEN /\ denoJson.file = "ok"
         /\ denoJson.config.name # ""
         /\ denoJson.config.version # ""
    ELSE jsrJson = "valid"
C24_DetectRegistriesProbesAreIndependent ==
  Detected =>
    registries = (IF NpmFit THEN <<"npm">> ELSE <<>>)
                   \o (IF JsrFit THEN <<"jsr">> ELSE <<>>)
C24_Witness ==
  /\ Detected
  /\ registries = <<"jsr">>
  /\ packageJson = "private"
  /\ denoJson.file = "missing"

\* C25: in a run with options.skipRegistries set promptSelectRegistries is
\* never called and issues no prompt, the selection of publish stays empty
\* and publishToRegistry is never called, whatever was detected.
C25_SkipRegistriesBypassesSelection ==
  opts.skipRegistries =>
    /\ pc # "promptSelectRegistries"
    /\ CallsBy(trace, "promptSelectRegistries") = <<>>
    /\ selectedRegistries = <<>>
    /\ picked = <<>>
    /\ ~Called("publishToRegistry")
C25_Witness ==
  /\ opts.skipRegistries
  /\ Len(registries) = 2
  /\ Succeeded("push")
  /\ result = "OK"

\* C26: promptSelectRegistries asks about the detected registries one by one
\* in detection order, each at most once and, once it has returned, each
\* exactly once; the selection of publish is then the registries answered
\* with yes, in detection order; publishToRegistry is called only after a
\* successful push, for the selected registries in order, and for all of
\* them once a run whose push succeeded has ended.
SelectorAsks == CallsBy(trace, "promptSelectRegistries")
SelectorReturned ==
  /\ SelectorAsks # <<>>
  /\ pc # "promptSelectRegistries"
  /\ SelectorAsks[Len(SelectorAsks)].ok
ConfirmedAt == {i \in DOMAIN SelectorAsks : SelectorAsks[i].ret = "yes"}
Publishes == CallsOf(trace, "publishToRegistry")
C26_SelectionIsWhatTheUserConfirmed ==
  /\ Len(SelectorAsks) <= Len(registries)
  /\ \A i \in DOMAIN SelectorAsks :
       /\ SelectorAsks[i].op = "Confirm.prompt"
       /\ SelectorAsks[i].args = <<getRegistryName(registries[i])>>
  /\ SelectorReturned =>
       /\ Len(SelectorAsks) = Len(registries)
       /\ Len(selectedRegistries) = Cardinality(ConfirmedAt)
       /\ \A k \in DOMAIN selectedRegistries :
            selectedRegistries[k] =
              registries[CHOOSE i \in ConfirmedAt :
                           Cardinality({j \in ConfirmedAt : j < i}) = k - 1]
  /\ Len(Publishes) <= Len(selectedRegistries)
  /\ \A k \in DOMAIN Publishes : Publishes[k].args = <<selectedRegistries[k]>>
  /\ \A i \in DOMAIN trace :
       trace[i].op = "publishToRegistry" =>
         \E j \in 1..(i - 1) : trace[j].op = "push" /\ trace[j].ok
  /\ (Finished /\ Succeeded("push")) =>
       Len(Publishes) = Len(selectedRegistries)
C26_Witness ==
  /\ Len(registries) = 2
  /\ SelectorReturned
  /\ SelectorAsks[1].ret = "yes"
  /\ SelectorAsks[2].ret = "no"
  /\ result = "OK"
  /\ Succeeded("push")
  /\ Len(Publishes) = 1
  /\ Publishes[1].args = <<registries[1]>>

\* C27 (as claimed): the default command exits with code 0 or 1, and with 0
\* exactly when the run pushed and went through its registry loop (full or
\* partial success), when the user answered no to the final confirmation,
\* or when a dry run reached its report; every other end, the rejected
\* options included, exits with 1.
DryRunReported ==
  \E i \in DOMAIN trace :
    /\ trace[i].op = "logger.info"
    /\ trace[i].args # <<>>
    /\ trace[i].args[1] = "Would push"
C27_ExitCodeZeroIffSuccessDeclineOrDryRun ==
  (entry = "cli" /\ pc = "exited") =>
    /\ exitCode \in {0, 1}
    /\ exitCode = 0 <=> (Succeeded("push") \/ Declined \/ DryRunReported)

\* C28 (as claimed): a sub-flow that has returned success has run no
\* mutating step that failed; in particular autoInitializeGit has not
\* returned success after a failed write of .gitignore or a failed git add
\* or git commit of the initial commit.
FailedSteps(t) == {i \in DOMAIN t : t[i].op \in MutatingOps /\ ~t[i].ok}
C28_NoFailureTurnsIntoSuccess ==
  (entry \in Flows /\ pc = "returned" /\ result = "OK") =>
    FailedSteps(CurrentCall(trace)) = {}

\* C29: no step of the check command changes the repository, its remotes or
\* tags, the working tree, the git configuration, the commits, the hosted
\* repositories or a manifest, and none of its calls is an init, a tag
\* creation, a commit, an addRemote, a real push, a registry publish or a
\* prompt: the only push is the dry run of canPush.
WritingOps ==
  MutatingOps \cup PromptKinds \cup PromptOps
    \cup {"initGitRepository", "createTag", "git tag", "push",
          "publishToRegistry", "promptSelectRegistries"}
C29_CheckIsReadOnly ==
  [][ entry = "check" =>
        /\ UNCHANGED <<RepoVars, EnvVars, ManifestVars>>
        /\ \A i \in DOMAIN trace' :
             /\ trace'[i].op \notin WritingOps
             /\ trace'[i].by \notin PromptOps \cup {"promptSelectRegistries"} ]_vars
C29_Witness ==
  /\ entry = "check"
  /\ pc = "exited"
  /\ exitCode = 0
  /\ Succeeded("canPush")
  /\ tree # <<>>
  /\ Len(registries) = 2

\* C30: once createTag has failed, for the name of options.createTag as for
\* the name of the interactive prompt, publish has returned a failure with
\* no ref resolved, the failed createTag is its last call, and no registry
\* detection or selection, confirmation prompt, push or registry publish
\* has been run; the default command exits with code 1.
PublishCalls == SelectSeq(trace, LAMBDA e : e.by # "cli")
AfterRefOps ==
  {"detectRegistries", "promptConfirmPublish", "push", "publishToRegistry"}
C30_TagCreationFailureIsFatal ==
  Failed("createTag") =>
    /\ Finished
    /\ result \notin {"", "OK"}
    /\ PublishCalls[Len(PublishCalls)].op = "createTag"
    /\ \A i \in DOMAIN trace : trace[i].op \notin AfterRefOps
    /\ CallsBy(trace, "promptSelectRegistries") = <<>>
    /\ gitRef = ""
    /\ pc = "exited" => exitCode = 1
C30_Witness ==
  /\ Failed("createTag")
  /\ Called("promptCreateTag")
  /\ pc = "exited"

\* C31: every push of publish comes after, in this order, a successful
\* isGitInstalled, a successful remote query, a successful canPush, the
\* resolution of the ref and a confirmation answered yes; publish pushes at
\* most once; every publishToRegistry comes after a push that succeeded.
At(op) == {i \in DOMAIN trace : trace[i].op = op /\ trace[i].ok}
RefResolvedAt ==
  {i \in DOMAIN trace :
     /\ trace[i].op = "logger.success"
     /\ trace[i].args # <<>>
     /\ trace[i].args[1] = "Publishing"}
ConfirmedYesAt ==
  {i \in DOMAIN trace :
     trace[i].op = "promptConfirmPublish" /\ trace[i].ret = "yes"}
PushesAt == {i \in DOMAIN trace : trace[i].op = "push"}
\* the first index of S after i, 0 if there is none
FirstAfter(S, i) ==
  IF \E j \in S : j > i
    THEN CHOOSE j \in S : j > i /\ \A k \in S : k > i => j <= k
    ELSE 0
C31_PhasesRunInOrder ==
  /\ Cardinality(PushesAt) <= 1
  /\ \A p \in PushesAt :
       LET a == FirstAfter(At("isGitInstalled"), 0)
           b == IF a = 0 THEN 0 ELSE FirstAfter(At("getRemotes"), a)
           c == IF b = 0 THEN 0 ELSE FirstAfter(At("canPush"), b)
           d == IF c = 0 THEN 0 ELSE FirstAfter(RefResolvedAt, c)
           e == IF d = 0 THEN 0 ELSE FirstAfter(ConfirmedYesAt, d)
       IN e # 0 /\ e < p
  /\ \A i \in DOMAIN trace :
       trace[i].op = "publishToRegistry" =>
         \E p \in PushesAt : p < i /\ trace[p].ok
C31_Witness ==
  /\ PushesAt # {}
  /\ Called("promptPublishType")
  /\ Called("publishToRegistry")
  /\ result = "OK"

\* C32 (as claimed): the remote named in the confirmation summary and in
\* the dry-run plan, which is the remote publish resolved, is the remote
\* that canPush probes and that push is called with.
C32_PushGoesToTheResolvedRemote ==
  \A i \in DOMAIN trace :
    /\ trace[i].op = "promptConfirmPublish" => trace[i].args[2] = remote
    /\ (trace[i].op = "logger.info" /\ trace[i].args[1] = "Would push") =>
         trace[i].args[3] = remote
    /\ trace[i].op \in {"canPush", "push"} => trace[i].args[1] = remote

\* C33: a run of publish that has ended has returned exactly one Result,
\* Ok or an Err with one of the typed error codes, never an exception; an
\* aborted promptInitGit, which throws inside publish, has ended the run
\* with PUBLISH_FAILED; while publish runs there is no result, and a result
\* once returned never changes.
PublishErrorCodes ==
  {"GIT_NOT_INSTALLED", "NOT_GIT_REPO", "GIT_INIT_FAILED", "GIT_REMOTES_FAILED",
   "NO_REMOTE", "AUTH_FAILED", "GIT_TAG_FAILED", "GIT_BRANCHES_FAILED",
   "NO_BRANCHES", "GIT_TAGS_FAILED", "NO_TAGS", "PROMPT_CANCELLED",
   "GIT_PUSH_FAILED", "PUBLISH_FAILED"}
PublishReturned == pc = "returned" \/ (pc = "exited" /\ Called("isGitInstalled"))
C33_PublishAlwaysReturnsAResult ==
  /\ [](/\ PublishReturned => result \in {"OK"} \cup PublishErrorCodes
        /\ ~PublishReturned => result = ""
        /\ Failed("promptInitGit") =>
             (PublishReturned /\ result = "PUBLISH_FAILED"))
  /\ [][result # "" => result' = result]_vars
C33_Witness ==
  /\ Failed("promptInitGit")
  /\ result = "PUBLISH_FAILED"
  /\ pc = "exited"

\* C34 (as claimed): in a run with options.registries naming registries,
\* the selector asks only about registries of that subset and
\* publishToRegistry is called only for registries of that subset.
InSubset(name) == \E i \in DOMAIN opts.registries : opts.registries[i] = name
C34_OnlyTheNamedRegistriesAreOffered ==
  opts.registries # <<>> =>
    /\ \A i \in DOMAIN SelectorAsks :
         InSubset(ToRegistryType(SelectorAsks[i].args[1]))
    /\ \A i \in DOMAIN Publishes : InSubset(Publishes[i].args[1])

\* C35: autoCreateRemote that finds neither gh nor glab has returned
\* NO_CLI_TOOLS after displaying the manual setup, without a prompt;
\* autoCreateRemote whose creation question is answered no has displayed
\* the manual setup after the answer and returned REPO_CREATE_DECLINED; in
\* both cases that call has created no repository and added no remote.
OpsOf(t) == {t[i].op : i \in DOMAIN t}
DisplayedLast(t) == t # <<>> /\ t[Len(t)].op = "displayRemoteSetup"
C35_ManualSetupIsDisplayedBeforeFailing ==
  entry = "autoCreateRemote" =>
    LET cur == CurrentCall(trace)
    IN /\ ("isGlabCliAvailable" \in OpsOf(cur) /\ cli = {}) =>
            (pc = "returned" /\ result = "NO_CLI_TOOLS")
       /\ result = "NO_CLI_TOOLS" =>
            /\ cli = {}
            /\ DisplayedLast(cur)
            /\ OpsOf(cur) \cap PromptKinds = {}
       /\ SaidNo(cur) => (pc = "returned" /\ result = "REPO_CREATE_DECLINED")
       /\ result = "REPO_CREATE_DECLINED" =>
            /\ DisplayedLast(cur)
            /\ cur[Len(cur) - 1].op = "Confirm.prompt"
            /\ cur[Len(cur) - 1].ret = "no"
       /\ result \in {"NO_CLI_TOOLS", "REPO_CREATE_DECLINED"} =>
            OpsOf(cur) \cap {"repo create", "addRemote"} = {}
C35_Witness ==
  /\ entry = "autoCreateRemote"
  /\ result = "REPO_CREATE_DECLINED"
  /\ cli = {"gh", "glab"}
  /\ Called("displayRemoteSetup")

\* C36 (as claimed): autoCreateRemote calls addRemote only after a
\* successful repository creation and a second remote query, never while
\* the remote origin exists and at most once in a call; whenever it has
\* returned success the remote origin exists.
NewCalls == SubSeq(trace', Len(trace) + 1, Len(trace'))
C36_OriginIsAttachedOnlyIfAbsent ==
  /\ [][ (entry = "autoCreateRemote" /\ "addRemote" \in OpsOf(NewCalls)) =>
           ~InSeq("origin", remotes) ]_vars
  /\ [](entry = "autoCreateRemote" =>
          LET cur == CurrentCall(trace)
          IN /\ Len(CallsOf(cur, "addRemote")) <= 1
             /\ "addRemote" \in OpsOf(cur) =>
                  /\ \E i \in DOMAIN cur : cur[i].op = "repo create" /\ cur[i].ok
                  /\ Len(CallsOf(cur, "getRemotes")) = 2
             /\ (pc = "returned" /\ result = "OK") => InSeq("origin", remotes))

\* C37: autoInitializeGit writes .gitignore only when none exists; it runs
\* git add and git commit, and the number of commits changes, only with a
\* non-empty working tree; createInitialCommit on an empty tree returns
\* success at once with no staging and no commit.
C37_IgnoreFileKeptAndEmptyTreeNotCommitted ==
  [][ entry = "autoInitializeGit" =>
        /\ "Deno.writeTextFile" \in OpsOf(NewCalls) => ~gitignore
        /\ (OpsOf(NewCalls) \cap {"git add", "git commit"} # {}
              \/ commits' # commits) => tree # <<>>
        /\ (pc = "aig.createInitialCommit" /\ tree = <<>>) =>
             /\ pc' = "returned"
             /\ result' = "OK"
             /\ OpsOf(NewCalls) = {"git status"}
             /\ UNCHANGED <<tree, commits>> ]_vars
C37_Witness ==
  /\ entry = "autoInitializeGit"
  /\ Succeeded("git init")
  /\ gitignore
  /\ ~Called("Deno.writeTextFile")
  /\ tree = <<>>
  /\ commits = 0
  /\ ~Called("git add")
  /\ result = "OK"

\* the sub-flow has taken the synthesized message and is about to commit
DefaultMessageTaken ==
  /\ entry = "autoCommitChanges"
  /\ pc = "acc.executeCommit"
  /\ trace[Len(trace)].op = "Confirm.prompt"
  /\ trace[Len(trace)].args = <<"use message">>
  /\ trace[Len(trace)].ret = "yes"

\* the names of the changed files of one kind, as git reports them
Changed(kind) == FilesOfKind(tree, kind)

Phrase(verb, files) ==
  IF Len(files) = 1 THEN verb \o " " \o files[1]
  ELSE verb \o " " \o ToString(Len(files)) \o " files"

\* C38 (as claimed): the synthesized commit message says Add if a file was
\* added, else Update if a file was modified, else Delete if a file was
\* deleted, else "Update files"; it names the file verbatim when exactly
\* one file of the chosen kind changed, and gives the count otherwise.
C38_DefaultMessageFollowsThePrecedence ==
  DefaultMessageTaken =>
    commitMessage =
      IF Len(Changed("added")) > 0 THEN Phrase("Add", Changed("added"))
      ELSE IF Len(Changed("modified")) > 0
        THEN Phrase("Update", Changed("modified"))
      ELSE IF Len(Changed("deleted")) > 0
        THEN Phrase("Delete", Changed("deleted"))
      ELSE "Update files"

\* C39 (as claimed): every line of the status output is counted exactly
\* once, so total is the number of changed entries, and autoCommitChanges
\* never answers a dirty tree with the success of "nothing to commit".
C39_EveryChangedEntryIsCountedOnce ==
  [][ (pc = "call" /\ entry = "autoCommitChanges" /\ isRepo) =>
        /\ getUncommittedChanges(tree).total = Len(tree)
        /\ isDirty(isRepo, tree) = "dirty" =>
             ~(pc' = "returned" /\ result' = "OK") ]_vars

WriteCalls(t) == SelectSeq(t, LAMBDA e : e.op = "Deno.writeTextFile")

\* C40: autoFixJsrConfig touches the manifest file in one step only, the
\* one that ends it: that step makes a single write call, the last call of
\* the sub-flow, and the file changes only when it returns success. A call
\* that ends declined, cancelled or with a thrown prompt has made no write
\* call and leaves the file as it was.
C40_ManifestIsWrittenOnceAtTheEnd ==
  [][ entry = "autoFixJsrConfig" =>
        /\ (writes' # writes \/ denoJson' # denoJson) =>
             /\ pc' = "returned" /\ result' = "OK"
             /\ Len(writes') = Len(writes) + 1
        /\ WriteCalls(NewCalls) # <<>> =>
             /\ pc' = "returned"
             /\ Len(WriteCalls(NewCalls)) = 1
             /\ trace'[Len(trace')].op = "Deno.writeTextFile"
        /\ (pc' = "returned" /\ result' \in {"AUTO_FIX_DECLINED",
               "SCOPE_PROMPT_CANCELLED", "NAME_PROMPT_CANCELLED", "THROWN"}) =>
             /\ WriteCalls(CurrentCall(trace')) = <<>>
             /\ UNCHANGED <<writes, denoJson>> ]_vars

\* the license prompt was aborted after a new name was chosen: the name is
\* in memory only
C40_Witness ==
  /\ entry = "autoFixJsrConfig"
  /\ pc = "returned"
  /\ result = "THROWN"
  /\ config.name # validation.currentConfig.name
  /\ writes = <<>>
  /\ denoJson.file = "ok"
  /\ denoJson.config = validation.currentConfig


====
